---------------------------- MODULE Spec2Model ----------------------------
(***************************************************************************)
(* Model of awkward/jagged.py: JaggedArray and ByteJaggedArray.            *)
(*                                                                         *)
(* A node is a pair of index arrays (starts, stops) over a content buffer. *)
(* Buffers live in `heap`, keyed by column name, so that two nodes over    *)
(* the same key share their data the way two Python objects share one      *)
(* numpy array.  Indexing and slice assignment of the index arrays and of  *)
(* the content are numpy's; they are written out here as they behave on    *)
(* one-dimensional arrays.                                                 *)
(***************************************************************************)
EXTENDS Integers, Sequences, FiniteSets, TLC

VARIABLES heap,    \* column key -> sequence of cells (the numpy buffers)
          root,    \* the node built by the constructor
          cur,     \* the node the next operation is called on (root or a view)
          depth,   \* number of row selections between root and cur
          op,      \* name of the last operation
          where,   \* its selector
          what,    \* its right-hand side (assignment only)
          res,     \* what it returned or raised
          old      \* heap before the last operation

vars == <<heap, root, cur, depth, op, where, what, res, old>>

-----------------------------------------------------------------------------
(* Bounds of the exploration *)

\* longest chain of views root[s1][s2]... that is followed
MaxChain == 1
\* most rows given to a constructor
MaxRows == 2
\* longest sublist given to a constructor
MaxCount == 2

\* bytes per element of the dtype of a ByteJaggedArray (a two-byte integer)
ItemSize == 2

-----------------------------------------------------------------------------
(* Small helpers *)

Min(a, b) == IF a < b THEN a ELSE b
Max(a, b) == IF a > b THEN a ELSE b

RECURSIVE SumSeq(_)
SumSeq(s) == IF s = <<>> THEN 0 ELSE Head(s) + SumSeq(Tail(s))

\* <<a, a+step, ...>> up to, not including, b
RECURSIVE Arange(_, _, _)
Arange(a, b, step) ==
    IF (step > 0 /\ a < b) \/ (step < 0 /\ a > b)
    THEN <<a>> \o Arange(a + step, b, step)
    ELSE <<>>

-----------------------------------------------------------------------------
(* numpy and Python indexing of one-dimensional arrays *)

None == <<>>
Some(n) == <<n>>

\* slice(start, stop, step).indices(n): a missing step is 1, a negative bound
\* counts from the end, and both bounds are clipped to the array
SliceStep(sl) == IF sl[3] = None THEN 1 ELSE sl[3][1]

ClipIndex(v, n, step) ==
    IF v < 0 THEN Max(v + n, IF step > 0 THEN 0 ELSE -1)
    ELSE Min(v, IF step > 0 THEN n ELSE n - 1)

SliceStart(n, sl, step) ==
    IF sl[1] = None THEN (IF step > 0 THEN 0 ELSE n - 1) ELSE ClipIndex(sl[1][1], n, step)

SliceStop(n, sl, step) ==
    IF sl[2] = None THEN (IF step > 0 THEN n ELSE -1) ELSE ClipIndex(sl[2][1], n, step)

\* the positions a slice selects (0-based)
SliceIndices(n, sl) ==
    Arange(SliceStart(n, sl, SliceStep(sl)), SliceStop(n, sl, SliceStep(sl)), SliceStep(sl))

\* a[where] on a one-dimensional array of length n: the positions read (0-based),
\* whether the result is a scalar, or the error numpy raises
Index1D(n, w) ==
    CASE w.k = "int" ->
           IF -n <= w.i /\ w.i < n
           THEN [err |-> "", scalar |-> TRUE, idx |-> <<IF w.i < 0 THEN w.i + n ELSE w.i>>]
           ELSE [err |-> "IndexError", scalar |-> TRUE, idx |-> <<>>]
      [] w.k = "slice" ->
           [err |-> "", scalar |-> FALSE, idx |-> SliceIndices(n, w.sl)]
      [] w.k = "array" ->
           IF \A k \in 1..Len(w.arr) : -n <= w.arr[k] /\ w.arr[k] < n
           THEN [err |-> "", scalar |-> FALSE,
                 idx |-> [k \in 1..Len(w.arr) |->
                            IF w.arr[k] < 0 THEN w.arr[k] + n ELSE w.arr[k]]]
           ELSE [err |-> "IndexError", scalar |-> FALSE, idx |-> <<>>]
      [] w.k = "mask" ->
           IF Len(w.mask) = n
           THEN [err |-> "", scalar |-> FALSE,
                 idx |-> SelectSeq([k \in 1..n |-> k - 1], LAMBDA p : w.mask[p + 1])]
           ELSE [err |-> "IndexError", scalar |-> FALSE, idx |-> <<>>]
      [] OTHER ->  \* a tuple of two selectors: too many indices for a 1-D array
           [err |-> "IndexError", scalar |-> FALSE, idx |-> <<>>]

Gather(a, idx) == [k \in 1..Len(idx) |-> a[idx[k] + 1]]

\* s[start:stop] for any integers start, stop
PySlice(s, start, stop) == Gather(s, SliceIndices(Len(s), <<Some(start), Some(stop), None>>))

Scalar(x) == [k |-> "scalar", v |-> x]
Sequence(s) == [k |-> "seq", seq |-> s]

\* a wrong AssignRange, which gives a single value to the first cell only
AssignRangeFirstCell(c, lo, m, v) ==
    IF v.k = "scalar"
    THEN [err |-> "", c |-> [j \in 1..Len(c) |-> IF lo < j /\ j <= lo + Min(m, 1) THEN v.v ELSE c[j]]]
    ELSE IF Len(v.seq) = m
    THEN [err |-> "",
          c |-> [j \in 1..Len(c) |-> IF lo < j /\ j <= lo + m THEN v.seq[j - lo] ELSE c[j]]]
    ELSE IF Len(v.seq) = 1
    THEN [err |-> "",
          c |-> [j \in 1..Len(c) |-> IF lo < j /\ j <= lo + m THEN v.seq[1] ELSE c[j]]]
    ELSE [err |-> "Broadcast", c |-> c]

\* the cells lo+1 .. lo+m of c (1-based) set from v; v is a scalar or a sequence,
\* which numpy broadcasts when its length is 1 and rejects when it does not fit
AssignRange(c, lo, m, v) ==
    IF v.k = "scalar"
    THEN [err |-> "", c |-> [j \in 1..Len(c) |-> IF lo < j /\ j <= lo + m THEN v.v ELSE c[j]]]
    ELSE IF Len(v.seq) = m
    THEN [err |-> "",
          c |-> [j \in 1..Len(c) |-> IF lo < j /\ j <= lo + m THEN v.seq[j - lo] ELSE c[j]]]
    ELSE IF Len(v.seq) = 1
    THEN [err |-> "",
          c |-> [j \in 1..Len(c) |-> IF lo < j /\ j <= lo + m THEN v.seq[1] ELSE c[j]]]
    ELSE [err |-> "Broadcast", c |-> c]

AssignIndices(c, idx, v) == AssignRange(c, IF idx = <<>> THEN 0 ELSE idx[1], Len(idx), v)

\* c[start:stop] = v on a one-dimensional array c
AssignSlice(c, start, stop, v) ==
    AssignIndices(c, SliceIndices(Len(c), <<Some(start), Some(stop), None>>), v)

\* stops - starts on two index arrays (numpy broadcasts a length-1 operand)
ArraySub(e, s) ==
    IF Len(e) = Len(s) THEN [err |-> "", v |-> [k \in 1..Len(e) |-> e[k] - s[k]]]
    ELSE IF Len(s) = 1 THEN [err |-> "", v |-> [k \in 1..Len(e) |-> e[k] - s[1]]]
    ELSE IF Len(e) = 1 THEN [err |-> "", v |-> [k \in 1..Len(s) |-> e[1] - s[k]]]
    ELSE [err |-> "Broadcast", v |-> <<>>]

-----------------------------------------------------------------------------
(* Nodes, results *)

\* the content of a node: a table (all columns of heap) or one column
TableContent == [tab |-> TRUE, col |-> "*"]
Column(c) == [tab |-> FALSE, col |-> c]

AnyColumn(hp) == CHOOSE c \in DOMAIN hp : TRUE

\* len(content)
ContentLen(n, hp) ==
    IF n.content.tab THEN Len(hp[AnyColumn(hp)]) ELSE Len(hp[n.content.col])

NoNode == [cls |-> "none"]
EmptyTable == [c \in {} |-> <<>>]

Raise(e) == [err |-> e, kind |-> "none", arr |-> <<>>, tab |-> EmptyTable, node |-> NoNode]
ArrayRes(a) == [err |-> "", kind |-> "array", arr |-> a, tab |-> EmptyTable, node |-> NoNode]
TableRes(t) == [err |-> "", kind |-> "table", arr |-> <<>>, tab |-> t, node |-> NoNode]
NodeRes(n) == [err |-> "", kind |-> "node", arr |-> <<>>, tab |-> EmptyTable, node |-> n]
Done == [err |-> "", kind |-> "none", arr |-> <<>>, tab |-> EmptyTable, node |-> NoNode]

\* JaggedArray.__init__ / ByteJaggedArray.__init__: the arrays are kept as given
\* (_toarray passes an array through), so the node refers to the caller's buffers
\* `alias` tells how starts and stops lie in memory: None when they are two
\* arrays of their own, otherwise the one array both are views of (.base),
\* the positions in it at which starts and stops begin, and their stride
\* `ndim` and `dtype` are len(shape) and dtype of starts and of stops; an array
\* of two dimensions is given by its rows, of which only the number matters
INDEXTYPE == "int64"
Integer(dtype) == dtype \in {"int32", "int64"}

JaggedArray(starts, stops, content, writeable) ==
    [cls |-> "JaggedArray", starts |-> starts, stops |-> stops, content |-> content,
     writeable |-> writeable, itemsize |-> 1, alias |-> None,
     ndim |-> <<1, 1>>, dtype |-> <<INDEXTYPE, INDEXTYPE>>]

ByteJaggedArray(starts, stops, content, itemsize, writeable) ==
    [cls |-> "ByteJaggedArray", starts |-> starts, stops |-> stops, content |-> content,
     writeable |-> writeable, itemsize |-> itemsize, alias |-> None,
     ndim |-> <<1, 1>>, dtype |-> <<INDEXTYPE, INDEXTYPE>>]

\* a node over index arrays of the caller that have these shapes and dtypes
OfArrays(n, ndim, dtype) == [n EXCEPT !.ndim = ndim, !.dtype = dtype]

\* a node that holds the very index arrays of n
SameArrays(new, n) == [new EXCEPT !.alias = n.alias, !.ndim = n.ndim, !.dtype = n.dtype]

WithBase(n, a) == [n EXCEPT !.alias = a]

\* offsets[:-1] and offsets[1:] of an array that owns its data; a slice that
\* selects nothing begins where the array begins
SharedBase(o) ==
    Some([base |-> o, sptr |-> 0, eptr |-> IF Len(o) > 1 THEN 1 ELSE 0, stride |-> 1])

\* starts[where] and stops[where] of views a: a slice gives views of the same
\* base, moved to the first selected position; anything else gives new arrays
SlicedBase(a, idx, step) ==
    IF idx = <<>> THEN a
    ELSE [a EXCEPT !.sptr = @ + a.stride * idx[1], !.eptr = @ + a.stride * idx[1],
                   !.stride = @ * step]

ViewBase(n, w) ==
    IF n.alias = None \/ w.k # "slice" THEN None
    ELSE Some(SlicedBase(n.alias[1], SliceIndices(Len(n.starts), w.sl), SliceStep(w.sl)))

\* a result whose node, when it is one, has its index arrays laid out as `a` tells
Rebased(r, a) == IF r.kind = "node" THEN [r EXCEPT !.node = WithBase(r.node, a)] ELSE r

\* JaggedArray.counts
counts(n) == ArraySub(n.stops, n.starts)

\* a wrong _check_startsstops, which only compares the lengths
CheckStartsStopsLengths(n) == IF Len(n.starts) > Len(n.stops) THEN "StartsStops" ELSE ""

\* if self._starts.shape[0] == 0: self._starts = self._starts.view(self.INDEXTYPE)
ViewedDtype(n, i, a) == IF Len(a) = 0 THEN INDEXTYPE ELSE n.dtype[i]

\* JaggedArray._check_startsstops: the error raised ("" for none)
CheckStartsStops(n) ==
    IF n.ndim[1] # 1 THEN "StartsShape"
    ELSE IF ~Integer(ViewedDtype(n, 1, n.starts)) THEN "StartsDtype"
    ELSE IF n.ndim[2] # 1 THEN "StopsShape"
    ELSE IF ~Integer(ViewedDtype(n, 2, n.stops)) THEN "StopsDtype"
    ELSE IF Len(n.starts) > Len(n.stops) THEN "StartsStops"
    ELSE ""

\* the node after _check_startsstops: an empty index array that the check
\* came to is replaced by its view as INDEXTYPE
Checked(n) ==
    [n EXCEPT !.dtype =
        <<IF n.ndim[1] = 1 THEN ViewedDtype(n, 1, n.starts) ELSE n.dtype[1],
          IF CheckStartsStops(n) \in {"StartsShape", "StartsDtype", "StopsShape"}
          THEN n.dtype[2] ELSE ViewedDtype(n, 2, n.stops)>>]

\* a wrong ContentSlice, with the element at stop included
ContentSliceInclusive(n, hp, start, stop) ==
    IF n.content.tab
    THEN TableRes([c \in DOMAIN hp |-> PySlice(hp[c], start, stop + 1)])
    ELSE ArrayRes(PySlice(hp[n.content.col], start, stop + 1))

\* content[start:stop] of a node: a slice of the column, or of every column of a table
ContentSlice(n, hp, start, stop) ==
    IF n.content.tab
    THEN TableRes([c \in DOMAIN hp |-> PySlice(hp[c], start, stop)])
    ELSE ArrayRes(PySlice(hp[n.content.col], start, stop))

\* content[field]: a column of a table; a plain array has no fields
HasField(n, hp, f) == n.content.tab /\ f \in DOMAIN hp

\* a wrong JaggedSelected, whose view of several rows is built over a
\* separate content instead of the content of n
JaggedSelectedCopy(n, hp, s, e) ==
    IF s.err # "" THEN Raise(s.err)
    ELSE IF e.err # "" THEN Raise(e.err)
    ELSE IF s.scalar
    THEN ContentSlice(n, hp, n.starts[s.idx[1] + 1], n.stops[e.idx[1] + 1])
    ELSE NodeRes(JaggedArray(Gather(n.starts, s.idx), Gather(n.stops, e.idx),
                             Column("copy"), n.writeable))

\* a wrong JaggedSelected, whose view of several rows takes its starts from
\* the stops and its stops from the starts
JaggedSelectedSwapped(n, hp, s, e) ==
    IF s.err # "" THEN Raise(s.err)
    ELSE IF e.err # "" THEN Raise(e.err)
    ELSE IF s.scalar
    THEN ContentSlice(n, hp, n.starts[s.idx[1] + 1], n.stops[e.idx[1] + 1])
    ELSE NodeRes(JaggedArray(Gather(n.stops, e.idx), Gather(n.starts, s.idx),
                             n.content, n.writeable))

\* starts = self._starts[where]; stops = self._stops[where]: one row gives
\* its range of the content, several rows give a node over the same content
JaggedSelected(n, hp, s, e) ==
    IF s.err # "" THEN Raise(s.err)
    ELSE IF e.err # "" THEN Raise(e.err)
    ELSE IF s.scalar
    THEN ContentSlice(n, hp, n.starts[s.idx[1] + 1], n.stops[e.idx[1] + 1])
    ELSE NodeRes(JaggedArray(Gather(n.starts, s.idx), Gather(n.stops, e.idx),
                             n.content, n.writeable))

\* a wrong JaggedGetItem, whose field branch keeps the whole table
JaggedGetItemKeepsTable(n, hp, w) ==
    IF w.k = "str"
    THEN IF HasField(n, hp, w.f)
         THEN NodeRes(JaggedArray(n.starts, n.stops, n.content, n.writeable))
         ELSE Raise("IndexError")
    ELSE IF CheckStartsStops(n) # "" THEN Raise(CheckStartsStops(n))
    ELSE JaggedSelected(n, hp, Index1D(Len(n.starts), w), Index1D(Len(n.stops), w))

\* JaggedArray.__getitem__
JaggedGetItem(n, hp, w) ==
    IF w.k = "str"
    THEN IF HasField(n, hp, w.f)
         THEN NodeRes(SameArrays(JaggedArray(n.starts, n.stops, Column(w.f), n.writeable),
                                 n))
         ELSE Raise("IndexError")
    ELSE IF CheckStartsStops(n) # "" THEN Raise(CheckStartsStops(n))
    ELSE Rebased(JaggedSelected(n, hp, Index1D(Len(n.starts), w), Index1D(Len(n.stops), w)),
                 ViewBase(n, w))

-----------------------------------------------------------------------------
(* Typed views of a byte buffer (little endian, itemsize bytes per element) *)

RECURSIVE Pow256(_)
Pow256(b) == IF b = 0 THEN 1 ELSE 256 * Pow256(b - 1)

\* the element whose first byte is c[at] (0-based)
RECURSIVE DecodeAt(_, _, _)
DecodeAt(c, at, w) ==
    IF w = 0 THEN 0 ELSE c[at + 1] + 256 * DecodeAt(c, at + 1, w - 1)

\* byte b of element v
EncodeByte(v, b) == (v \div Pow256(b)) % 256

\* bytes.view(dtype): fails unless the size is a multiple of the element size
View(bytes, w) ==
    IF Len(bytes) % w # 0 THEN Raise("ViewSize")
    ELSE ArrayRes([j \in 1..(Len(bytes) \div w) |-> DecodeAt(bytes, (j - 1) * w, w)])

\* the bytes of c seen through buf = numpy.frombuffer(c, dtype, n, offset),
\* once buf holds the elements r.c
Encoded(c, w, n, offset, r) ==
    IF r.err # "" THEN [err |-> r.err, c |-> c]
    ELSE [err |-> "",
          c |-> [p \in 1..Len(c) |->
                   IF offset < p /\ p <= offset + n * w
                   THEN EncodeByte(r.c[((p - 1 - offset) \div w) + 1], (p - 1 - offset) % w)
                   ELSE c[p]]]

\* numpy.frombuffer(c, dtype, count, offset): count elements from byte offset on;
\* a negative count stands for all the bytes that follow
BufferLen(c, w, count, offset) == IF count < 0 THEN (Len(c) - offset) \div w ELSE count

BufferFits(c, w, count, offset) ==
    /\ offset <= Len(c)
    /\ offset + BufferLen(c, w, count, offset) * w <= Len(c)
    /\ count < 0 => (Len(c) - offset) % w = 0

\* buf = numpy.frombuffer(c, dtype, count, offset); buf[lo:hi] = v
\* buf shares the bytes of c, so the assignment is seen in c
FromBufferAssign(c, w, count, offset, lo, hi, v) ==
    IF ~BufferFits(c, w, count, offset) THEN [err |-> "BufferSize", c |-> c]
    ELSE Encoded(c, w, BufferLen(c, w, count, offset), offset,
                 AssignSlice([j \in 1..BufferLen(c, w, count, offset) |->
                                DecodeAt(c, offset + (j - 1) * w, w)], lo, hi, v))

\* a wrong ByteJaggedSelected, whose view of one row begins at an element boundary
ByteJaggedSelectedAligned(n, hp, s, e) ==
    IF s.err # "" THEN Raise(s.err)
    ELSE IF e.err # "" THEN Raise(e.err)
    ELSE IF s.scalar
    THEN View(PySlice(hp[n.content.col],
                      n.starts[s.idx[1] + 1] - (n.starts[s.idx[1] + 1] % n.itemsize),
                      n.stops[e.idx[1] + 1] - (n.starts[s.idx[1] + 1] % n.itemsize)),
              n.itemsize)
    ELSE NodeRes(ByteJaggedArray(Gather(n.starts, s.idx), Gather(n.stops, e.idx),
                                 n.content, n.itemsize, n.writeable))

\* one row gives a typed view of its bytes, several rows a node over the same bytes
ByteJaggedSelected(n, hp, s, e) ==
    IF s.err # "" THEN Raise(s.err)
    ELSE IF e.err # "" THEN Raise(e.err)
    ELSE IF s.scalar
    THEN View(PySlice(hp[n.content.col], n.starts[s.idx[1] + 1], n.stops[e.idx[1] + 1]),
              n.itemsize)
    ELSE NodeRes(ByteJaggedArray(Gather(n.starts, s.idx), Gather(n.stops, e.idx),
                                 n.content, n.itemsize, n.writeable))

\* ByteJaggedArray.__getitem__
\* (the content is a flat byte array, so a field name cannot index it, and
\* the constructor call of that branch is never reached)
ByteJaggedGetItem(n, hp, w) ==
    IF w.k = "str" THEN Raise("IndexError")
    ELSE IF CheckStartsStops(n) # "" THEN Raise(CheckStartsStops(n))
    ELSE Rebased(ByteJaggedSelected(n, hp, Index1D(Len(n.starts), w),
                                    Index1D(Len(n.stops), w)),
                 ViewBase(n, w))

GetItem(n, hp, w) ==
    IF n.cls = "ByteJaggedArray" THEN ByteJaggedGetItem(n, hp, w)
    ELSE JaggedGetItem(n, hp, w)

\* the node after __getitem__: the check is called unless where is a field name
AfterGetItem(n, w) == IF w.k = "str" THEN n ELSE Checked(n)

-----------------------------------------------------------------------------
(* Assignment *)

Jagged(rows) == [k |-> "jagged", rows |-> rows]

\* for start, stop in izip(starts, stops): content[start:stop] = vals[k]
\* rows k..n in order; the loop ends at the first assignment numpy rejects,
\* with the rows before it already written
RECURSIVE WriteRows(_, _, _, _, _, _)
WriteRowsFrom(r, ss, es, vals, k, n) ==
    IF r.err # "" THEN r ELSE WriteRows(r.c, ss, es, vals, k, n)

WriteRows(c, ss, es, vals, k, n) ==
    IF k > n THEN [err |-> "", c |-> c]
    ELSE WriteRowsFrom(AssignSlice(c, ss[k], es[k], vals[k]), ss, es, vals, k + 1, n)

\* this = next = 0; for ...: next += stop - start; what[this:next]; this = next
RECURSIVE Chunks(_, _, _, _, _)
Chunks(seq, ss, es, k, this) ==
    IF k > Min(Len(ss), Len(es)) THEN <<>>
    ELSE <<Sequence(PySlice(seq, this, this + (es[k] - ss[k])))>>
         \o Chunks(seq, ss, es, k + 1, this + (es[k] - ss[k]))

\* the test made before the loop over the selected rows: a jagged right-hand
\* side needs one sublist per row, a sequence of length other than 1 needs
\* one element per selected cell
SumOf(d) == IF d.err # "" THEN d ELSE [err |-> "", v |-> SumSeq(d.v)]

SequenceError(len, total) ==
    IF total.err # "" THEN total.err
    ELSE IF len # total.v THEN "LengthMismatch" ELSE ""

RowsError(x, ss, es) ==
    IF x.k = "jagged" THEN (IF Len(x.rows) # Len(ss) THEN "LengthMismatch" ELSE "")
    ELSE IF x.k = "seq" /\ Len(x.seq) # 1
    THEN SequenceError(Len(x.seq), SumOf(ArraySub(es, ss)))
    ELSE ""

\* a wrong RowValues, which gives the first sublist of a jagged right-hand
\* side to every row
RowValuesFirst(x, ss, es) ==
    IF x.k = "jagged"
    THEN [k \in 1..Min(Len(x.rows), Min(Len(ss), Len(es))) |-> Sequence(x.rows[1])]
    ELSE IF x.k = "seq" /\ Len(x.seq) = 1
    THEN [k \in 1..Min(Len(ss), Len(es)) |-> Scalar(x.seq[1])]
    ELSE IF x.k = "seq" THEN Chunks(x.seq, ss, es, 1, 0)
    ELSE [k \in 1..Min(Len(ss), Len(es)) |-> x]

\* what the loop assigns to each selected row, in order: the sublists of a
\* jagged right-hand side, what[0] of a sequence of length 1, consecutive
\* pieces of a longer sequence, or the value itself
RowValues(x, ss, es) ==
    IF x.k = "jagged"
    THEN [k \in 1..Min(Len(x.rows), Min(Len(ss), Len(es))) |-> Sequence(x.rows[k])]
    ELSE IF x.k = "seq" /\ Len(x.seq) = 1
    THEN [k \in 1..Min(Len(ss), Len(es)) |-> Scalar(x.seq[1])]
    ELSE IF x.k = "seq" THEN Chunks(x.seq, ss, es, 1, 0)
    ELSE [k \in 1..Min(Len(ss), Len(es)) |-> x]

\* the branches of JaggedArray.__setitem__ for a selection of several rows
JaggedSetRows(c, ss, es, x) ==
    IF RowsError(x, ss, es) # "" THEN [err |-> RowsError(x, ss, es), c |-> c]
    ELSE WriteRows(c, ss, es, RowValues(x, ss, es), 1, Len(RowValues(x, ss, es)))

\* a wrong Store, which assigns to a copy of the content and leaves the
\* content itself as it was
StoreCopy(hp, col, r) == [err |-> r.err, heap |-> hp]

\* the content as the assignment leaves it
Store(hp, col, r) == [err |-> r.err, heap |-> [hp EXCEPT ![col] = r.c]]

JaggedSetSelected(n, hp, s, e, x) ==
    IF s.err # "" THEN [err |-> s.err, heap |-> hp]
    ELSE IF e.err # "" THEN [err |-> e.err, heap |-> hp]
    ELSE IF s.scalar
    THEN Store(hp, n.content.col,
               AssignSlice(hp[n.content.col], n.starts[s.idx[1] + 1], n.stops[e.idx[1] + 1], x))
    ELSE Store(hp, n.content.col,
               JaggedSetRows(hp[n.content.col], Gather(n.starts, s.idx),
                             Gather(n.stops, e.idx), x))

\* JaggedArray.__setitem__: the error raised ("" for none) and the heap it leaves.
\* In the field-name branch content[where] is evaluated, and then the name
\* `writeable`, which is not defined there.
JaggedSetItem(n, hp, w, x) ==
    IF w.k = "str"
    THEN [err |-> IF HasField(n, hp, w.f) THEN "NameError" ELSE "IndexError", heap |-> hp]
    ELSE IF ~n.writeable THEN [err |-> "ReadOnly", heap |-> hp]
    ELSE IF CheckStartsStops(n) # "" THEN [err |-> CheckStartsStops(n), heap |-> hp]
    ELSE JaggedSetSelected(n, hp, Index1D(Len(n.starts), w), Index1D(Len(n.stops), w), x)

\* for startpos, stoppos, offset in izip(startposes, stopposes, offsets):
\*     buf = numpy.frombuffer(content, dtype, count=stoppos, offset=offset)
\*     buf[startpos:stoppos] = vals[k]
RECURSIVE WriteByteRows(_, _, _, _, _, _, _, _)
WriteByteRowsFrom(r, w, startposes, stopposes, offsets, vals, k, n) ==
    IF r.err # "" THEN r
    ELSE WriteByteRows(r.c, w, startposes, stopposes, offsets, vals, k, n)

WriteByteRows(c, w, startposes, stopposes, offsets, vals, k, n) ==
    IF k > n THEN [err |-> "", c |-> c]
    ELSE WriteByteRowsFrom(FromBufferAssign(c, w, stopposes[k], offsets[k],
                                            startposes[k], stopposes[k], vals[k]),
                           w, startposes, stopposes, offsets, vals, k + 1, n)

\* numpy.floor_divide, numpy.remainder
FloorDivide(a, w) == [k \in 1..Len(a) |-> a[k] \div w]
Remainder(a, w) == [k \in 1..Len(a) |-> a[k] % w]

ByteJaggedWriteRows(c, w, startposes, stopposes, offsets, x) ==
    IF RowsError(x, startposes, stopposes) # ""
    THEN [err |-> RowsError(x, startposes, stopposes), c |-> c]
    ELSE WriteByteRows(c, w, startposes, stopposes, offsets,
                       RowValues(x, startposes, stopposes),
                       1, Len(RowValues(x, startposes, stopposes)))

\* the branches of ByteJaggedArray.__setitem__ for a selection of several
\* rows; nothing at all is done for a selection of no rows
ByteJaggedSetRows(c, w, ss, es, x) ==
    IF Len(ss) = 0 THEN [err |-> "", c |-> c]
    ELSE ByteJaggedWriteRows(c, w, FloorDivide(ss, w), FloorDivide(es, w), Remainder(ss, w), x)

ByteJaggedSetSelected(n, hp, s, e, x) ==
    IF s.err # "" THEN [err |-> s.err, heap |-> hp]
    ELSE IF e.err # "" THEN [err |-> e.err, heap |-> hp]
    ELSE IF s.scalar
    THEN Store(hp, n.content.col,
               FromBufferAssign(hp[n.content.col], n.itemsize,
                                n.stops[e.idx[1] + 1] \div n.itemsize,
                                n.starts[s.idx[1] + 1] % n.itemsize,
                                n.starts[s.idx[1] + 1] \div n.itemsize,
                                n.stops[e.idx[1] + 1] \div n.itemsize, x))
    ELSE Store(hp, n.content.col,
               ByteJaggedSetRows(hp[n.content.col], n.itemsize, Gather(n.starts, s.idx),
                                 Gather(n.stops, e.idx), x))

\* ByteJaggedArray.__setitem__
\* (the content is a flat byte array, which a field name cannot index)
ByteJaggedSetItem(n, hp, w, x) ==
    IF w.k = "str" THEN [err |-> "IndexError", heap |-> hp]
    ELSE IF ~n.writeable THEN [err |-> "ReadOnly", heap |-> hp]
    ELSE IF CheckStartsStops(n) # "" THEN [err |-> CheckStartsStops(n), heap |-> hp]
    ELSE ByteJaggedSetSelected(n, hp, Index1D(Len(n.starts), w), Index1D(Len(n.stops), w), x)

SetItem(n, hp, w, x) ==
    IF n.cls = "ByteJaggedArray" THEN ByteJaggedSetItem(n, hp, w, x)
    ELSE JaggedSetItem(n, hp, w, x)

\* row = n[i]; row[...] = x. The row of a JaggedArray is content[start:stop],
\* a numpy view of the content, and assigning to it assigns to the content.
\* The row of a ByteJaggedArray is a view of bytes that are read-only unless
\* the node is writeable (the content setter sets flags.writeable).
AssignRow(n, hp, w, x) ==
    IF n.cls = "ByteJaggedArray"
    THEN IF ~n.writeable THEN [err |-> "ReadOnly", heap |-> hp]
         ELSE Store(hp, n.content.col,
                    FromBufferAssign(hp[n.content.col], n.itemsize,
                                     (n.stops[Index1D(Len(n.stops), w).idx[1] + 1]
                                        - n.starts[Index1D(Len(n.starts), w).idx[1] + 1])
                                       \div n.itemsize,
                                     n.starts[Index1D(Len(n.starts), w).idx[1] + 1], 0,
                                     (n.stops[Index1D(Len(n.stops), w).idx[1] + 1]
                                        - n.starts[Index1D(Len(n.starts), w).idx[1] + 1])
                                       \div n.itemsize,
                                     x))
    ELSE JaggedSetSelected(n, hp, Index1D(Len(n.starts), w), Index1D(Len(n.stops), w), x)

\* the node after __setitem__: the check is called unless where is a field
\* name or the node is read-only
AfterSetItem(n, w) == IF w.k = "str" \/ ~n.writeable THEN n ELSE Checked(n)

\* a wrong Parents, which numbers the rows from 1
ParentsFromOne(n, hp, garbage) ==
    IF Len(n.starts) > Len(n.stops) THEN Raise("IndexError")
    ELSE ArrayRes(WriteRows(garbage, n.starts, n.stops,
                            [k \in 1..Len(n.starts) |-> Scalar(k)],
                            1, Len(n.starts)).c)

\* JaggedArray.parents; numpy.empty leaves the cells no row covers with
\* whatever the memory held, given here as `garbage`
Parents(n, hp, garbage) ==
    IF Len(n.starts) > Len(n.stops) THEN Raise("IndexError")
    ELSE ArrayRes(WriteRows(garbage, n.starts, n.stops,
                            [k \in 1..Len(n.starts) |-> Scalar(k - 1)],
                            1, Len(n.starts)).c)

\* JaggedArray._offsets_is_aliased: starts and stops are views of one array,
\* begin at its first and at its second element and are one element shorter.
\* The address numpy reports for a view without elements depends on the
\* build: `empty` is what the comparison of the addresses then gives.
OffsetsIsAliased(n, empty) ==
    /\ n.alias # None
    /\ Len(n.starts) = Len(n.alias[1].base) - 1
    /\ Len(n.stops) = Len(n.alias[1].base) - 1
    /\ IF Len(n.starts) = 0 THEN empty
       ELSE n.alias[1].sptr = 0 /\ n.alias[1].eptr = 1

\* JaggedArray.offsets
Offsets(n, empty) ==
    IF OffsetsIsAliased(n, empty) THEN ArrayRes(n.alias[1].base)
    ELSE IF PySlice(n.starts, 1, Len(n.starts)) = PySlice(n.stops, 0, -1)
    THEN IF Len(n.stops) = 0 THEN Raise("IndexError")
         ELSE ArrayRes(Append(n.starts, n.stops[Len(n.stops)]))
    ELSE Raise("ValueError")

-----------------------------------------------------------------------------
(* awkward/persist.py *)

\* A store (sink or source) maps keys to blobs; a key is a prefix and a
\* suffix, a blob is the bytes of an array or a schema document.
Key(prefix, suffix) == <<prefix, suffix>>
EmptyStore == [key \in {} |-> <<>>]

\* import awkward.persist: the two dict displays in serialize.fill hold the
\* item [dtype] without a key, so the module does not compile and none of its
\* functions can be called
ImportPersist == "SyntaxError"

\* awkward.persist.serialize(obj, sink, prefix, compression): the error
\* raised and the sink it leaves
Serialize(obj, sink, prefix, compression) ==
    [err |-> ImportPersist, sink |-> sink]

\* awkward.persist.deserialize(source, prefix, whitelist); behind the import,
\* its first statement reads the local name schema before it is assigned
Deserialize(source, prefix, whitelist) ==
    IF ImportPersist # "" THEN Raise(ImportPersist) ELSE Raise("UnboundLocalError")

-----------------------------------------------------------------------------
(* awkward/arrow.py *)

\* The nodes toarrow tells apart; an array of the caller is its cells
NdArray(values) == [cls |-> "ndarray", values |-> values]
MaskedArray(mask, content, maskedwhen) ==
    [cls |-> "MaskedArray", mask |-> mask, content |-> content, maskedwhen |-> maskedwhen]
BitMaskedArray(mask, content, maskedwhen, lsborder) ==
    [cls |-> "BitMaskedArray", mask |-> mask, content |-> content,
     maskedwhen |-> maskedwhen, lsborder |-> lsborder]
IndexedMaskedArray(mask, content) ==
    [cls |-> "IndexedMaskedArray", mask |-> mask, content |-> content]
ObjectArray(content) == [cls |-> "ObjectArray", content |-> content]
ChunkedArray(chunks, cnts) ==
    [cls |-> "ChunkedArray", chunks |-> chunks, counts |-> cnts]
UnionArray(tags, index, contents) ==
    [cls |-> "UnionArray", tags |-> tags, index |-> index, contents |-> contents]

\* len(data)
RECURSIVE LenOf(_)
LenOf(data) ==
    CASE data.cls = "ndarray" -> Len(data.values)
      [] data.cls = "MaskedArray" -> Len(data.mask)
      [] data.cls = "BitMaskedArray" -> LenOf(data.content)
      [] data.cls = "IndexedMaskedArray" -> Len(data.mask)
      [] data.cls = "ObjectArray" -> LenOf(data.content)
      [] data.cls = "UnionArray" -> Len(data.tags)
      [] OTHER -> 0

\* bit i (from 0) of a bit mask, least significant bit first or last
RECURSIVE Pow2(_)
Pow2(b) == IF b = 0 THEN 1 ELSE 2 * Pow2(b - 1)
BitAt(bytes, i, lsborder) ==
    (bytes[(i \div 8) + 1] \div Pow2(IF lsborder THEN i % 8 ELSE 7 - (i % 8))) % 2 = 1

\* data.boolmask(maskedwhen=True): True where the node masks its element
BoolMask(data) ==
    CASE data.cls = "MaskedArray" ->
            [i \in 1..Len(data.mask) |-> data.mask[i] = data.maskedwhen]
      [] data.cls = "BitMaskedArray" ->
            [i \in 1..LenOf(data.content) |->
                BitAt(data.mask, i - 1, data.lsborder) = data.maskedwhen]
      [] data.cls = "IndexedMaskedArray" ->
            [i \in 1..Len(data.mask) |-> data.mask[i] < 0]
      [] OTHER -> <<>>

\* a & b on two boolean arrays: an array of length 1 is broadcast, two other
\* lengths that differ raise ValueError
Broadcastable(a, b) == Len(a) = Len(b) \/ Len(a) = 1 \/ Len(b) = 1
MaskAnd(a, b) ==
    [i \in 1..(IF Len(a) = 1 THEN Len(b) ELSE Len(a)) |->
        a[IF Len(a) = 1 THEN 1 ELSE i] /\ b[IF Len(b) = 1 THEN 1 ELSE i]]

\* thismask = data.boolmask(maskedwhen=True)
\* if mask is not None: thismask = mask & thismask
ThisMask(data, mask) ==
    IF mask = None THEN BoolMask(data) ELSE MaskAnd(mask[1], BoolMask(data))

\* a[index] on the first axis: a negative index counts from the end
Wrap(i, n) == IF i < 0 THEN i + n ELSE i
RECURSIVE Take(_, _)
Take(data, index) ==
    CASE data.cls = "ndarray" ->
            NdArray([k \in 1..Len(index) |-> data.values[Wrap(index[k], Len(data.values)) + 1]])
      [] data.cls = "MaskedArray" ->
            MaskedArray([k \in 1..Len(index) |-> data.mask[Wrap(index[k], Len(data.mask)) + 1]],
                        Take(data.content, index), data.maskedwhen)
      [] data.cls = "ObjectArray" -> ObjectArray(Take(data.content, index))
      [] OTHER -> data

\* the bounds check of a[index]
InBounds(index, n) == \A k \in DOMAIN index : -n <= index[k] /\ index[k] < n

\* pyarrow.array(data, mask=mask): the values and the null mask
ArrowArray(values, mask) ==
    [err |-> "", kind |-> "arrow", arr |-> values, tab |-> EmptyTable,
     node |-> [cls |-> "pyarrow.Array", mask |-> mask]]

\* the elements of the union that have the tag i and carry the index j
Carriers(data, i, j) ==
    {k \in DOMAIN data.tags :
        data.tags[k] = i /\ Wrap(data.index[k], LenOf(data.contents[i + 1])) = j}

\* mask[thistags] and thismask[data.index[thistags]] = ... raise IndexError
\* when the mask has not the length of the tags or an index is out of bounds
Scatters(data, mask) ==
    /\ Len(mask) = Len(data.tags)
    /\ \A k \in DOMAIN data.tags :
           data.tags[k] + 1 \in DOMAIN data.contents
               => /\ -LenOf(data.contents[data.tags[k] + 1]) <= data.index[k]
                  /\ data.index[k] < LenOf(data.contents[data.tags[k] + 1])

\* thismask = numpy.empty(len(x)); thismask[data.index[thistags]] = mask[thistags]
\* for the content x of the tag i: an element no index names keeps what
\* numpy.empty holds; one that several name is set more than once, and numpy
\* does not say in which order: it keeps the value of the last or of the first
UnionMask(data, i, mask, garbage, last) ==
    [j \in 1..LenOf(data.contents[i + 1]) |->
        IF Carriers(data, i, j - 1) = {} THEN garbage # 0
        ELSE mask[CHOOSE k \in Carriers(data, i, j - 1) :
                     \A l \in Carriers(data, i, j - 1) : IF last THEN l <= k ELSE k <= l]]

\* pyarrow.UnionArray.from_dense(tags, index, contents) over the converted
\* contents rs; the first that failed ends the conversion
FromDense(data, rs) ==
    IF \E i \in DOMAIN rs : rs[i].err # ""
    THEN rs[CHOOSE i \in DOMAIN rs : rs[i].err # "" /\ \A j \in 1..(i - 1) : rs[j].err = ""]
    ELSE [err |-> "", kind |-> "arrow", arr |-> <<>>, tab |-> EmptyTable,
          node |-> [cls |-> "pyarrow.UnionArray", mask |-> None, tags |-> data.tags,
                    index |-> data.index,
                    children |-> [i \in DOMAIN rs |-> [arr |-> rs[i].arr, mask |-> rs[i].node.mask]]]]

\* toarrow.recurse(data, mask); garbage is what numpy.empty holds, last the
\* order of an assignment to one element more than once
RECURSIVE ToArrowRecurse(_, _, _, _)
ToArrowRecurse(data, mask, garbage, last) ==
    CASE data.cls = "ndarray" ->
            IF mask # None /\ Len(mask[1]) # Len(data.values)
            THEN Raise("ArrowInvalid")
            ELSE ArrowArray(data.values, mask)
      [] data.cls = "ChunkedArray" -> Raise("NotImplementedError")
      [] data.cls \in {"MaskedArray", "BitMaskedArray"} ->
            IF mask # None /\ ~Broadcastable(mask[1], BoolMask(data))
            THEN Raise("ValueError")
            ELSE ToArrowRecurse(data.content, Some(ThisMask(data, mask)), garbage, last)
      [] data.cls = "IndexedMaskedArray" ->
            IF mask # None /\ ~Broadcastable(mask[1], BoolMask(data))
            THEN Raise("ValueError")
            ELSE IF LenOf(data.content) = 0
            THEN ToArrowRecurse(NdArray([k \in 1..Len(data.mask) |-> garbage]),
                                Some(ThisMask(data, mask)), garbage, last)
            ELSE IF ~InBounds(data.mask, LenOf(data.content))
            THEN Raise("IndexError")
            ELSE ToArrowRecurse(Take(data.content, data.mask),
                                Some(ThisMask(data, mask)), garbage, last)
      [] data.cls = "ObjectArray" -> ToArrowRecurse(data.content, mask, garbage, last)
      [] data.cls = "UnionArray" ->
            IF mask # None /\ ~Scatters(data, mask[1])
            THEN Raise("IndexError")
            ELSE FromDense(data, [i \in 1..Len(data.contents) |->
                                    ToArrowRecurse(data.contents[i],
                                                   IF mask = None THEN None
                                                   ELSE Some(UnionMask(data, i - 1, mask[1],
                                                                       garbage, last)),
                                                   garbage, last)])
      [] OTHER -> Raise("TypeError")

\* awkward.arrow.toarrow(obj)
ToArrow(obj, garbage, last) == ToArrowRecurse(obj, None, garbage, last)

\* str(i) of a small number
Str(i) == <<"0", "1", "2", "3", "4">>[i + 1]

\* The types of an external schema: a field has a name, a type and nullable
Field(name, type, nullable) == [name |-> name, type |-> type, nullable |-> nullable]
DataType(name) == [tpe |-> "DataType", name |-> name, children |-> <<>>]
DictionaryType(value) ==
    [tpe |-> "DictionaryType", name |-> "", children |-> <<Field("dictionary", value, TRUE)>>]
ListType(value) ==
    [tpe |-> "ListType", name |-> "", children |-> <<Field("item", value, TRUE)>>]
StructType(children) == [tpe |-> "StructType", name |-> "", children |-> children]
UnionType(types) ==
    [tpe |-> "UnionType", name |-> "",
     children |-> [i \in 1..Len(types) |-> Field(Str(i - 1), types[i], TRUE)]]
Unknown == [tpe |-> "object", name |-> "", children |-> <<>>]

\* The types of awkward.type
Primitive(name) == [t |-> "primitive", to |-> name, of |-> <<>>]
OptionType(type) == [t |-> "option", to |-> "", of |-> <<type>>]
ArrayType(to, type) == [t |-> "array", to |-> to, of |-> <<type>>]
NoType == [t |-> "None", to |-> "", of |-> <<>>]
\* out = out & x, out = out | x over the children, None when there are none
Product(types) ==
    IF types = <<>> THEN NoType
    ELSE IF Len(types) = 1 THEN types[1] ELSE [t |-> "product", to |-> "", of |-> types]
Sum(types) ==
    IF types = <<>> THEN NoType
    ELSE IF Len(types) = 1 THEN types[1] ELSE [t |-> "sum", to |-> "", of |-> types]

\* if nullable: return awkward.type.OptionType(out) else: return out
Lifted(out, nullable) == IF nullable THEN OptionType(out) ELSE out

\* str, bytes, numpy.dtype(bool), tpe.to_pandas_dtype()
PrimitiveOf(name) ==
    CASE name = "string" -> Primitive("str")
      [] name = "binary" -> Primitive("bytes")
      [] name = "bool" -> Primitive("dtype(bool)")
      [] name = "int64" -> Primitive("numpy.int64")
      [] OTHER -> Primitive("numpy.float64")

\* schema2type.recurse(tpe, nullable)
RECURSIVE Recurse(_, _)
Recurse(tpe, nullable) ==
    CASE tpe.tpe = "DictionaryType" ->
            Lifted(Recurse(tpe.children[1].type, nullable), nullable)
      [] tpe.tpe = "StructType" ->
            Lifted(Product([i \in 1..Len(tpe.children) |->
                              ArrayType(tpe.children[i].name,
                                        Recurse(tpe.children[i].type, tpe.children[i].nullable))]),
                   nullable)
      [] tpe.tpe = "ListType" ->
            Lifted(ArrayType("inf", Recurse(tpe.children[1].type, nullable)), nullable)
      [] tpe.tpe = "UnionType" ->
            Lifted(Sum([i \in 1..Len(tpe.children) |->
                          Recurse(tpe.children[i].type, nullable)]),
                   nullable)
      [] OTHER -> Lifted(PrimitiveOf(tpe.name), nullable)

\* the types recurse knows; any other raises NotImplementedError
RECURSIVE Known(_)
Known(tpe) ==
    /\ tpe.tpe \in {"DictionaryType", "StructType", "ListType", "UnionType", "DataType"}
    /\ \A i \in DOMAIN tpe.children : Known(tpe.children[i].type)

TypeRes(type) == [err |-> "", kind |-> "type", arr |-> <<>>, tab |-> EmptyTable, node |-> type]

\* awkward.arrow.schema2type(schema); a schema is the sequence of its fields
Schema2Type(schema) ==
    IF \E i \in DOMAIN schema : ~Known(schema[i].type)
    THEN Raise("NotImplementedError")
    ELSE TypeRes(Product([i \in 1..Len(schema) |->
                            ArrayType(schema[i].name,
                                      Recurse(schema[i].type, schema[i].nullable))]))

\* The nodes fromarrow builds: awkwardlib.<cls> over the arrays read from its
\* own buffers (in the order they are popped) and over the nodes of its children
Awk(cls, own, contents) == [cls |-> cls, own |-> own, contents |-> contents]

\* out[:n]
Sliced(out, n) == Awk("[:]", <<n>>, <<out>>)

\* What a caller passes to fromarrow: an array has a type, a length and
\* buffers(); a chunked array has chunks; a record batch has the names of its
\* schema and columns; a table has batches
PyArray(type, len, buffers) ==
    [cls |-> "pyarrow.Array", type |-> type, len |-> len, buffers |-> buffers]
PyChunkedArray(chunks) == [cls |-> "pyarrow.ChunkedArray", chunks |-> chunks]
RecordBatch(names, columns) ==
    [cls |-> "pyarrow.RecordBatch", names |-> names, columns |-> columns]
PyTable(batches) == [cls |-> "pyarrow.Table", batches |-> batches]

\* tpe.mode of a union type
UnionTypeMode(mode, types) == [UnionType(types) EXCEPT !.name = mode]

\* A buffer is None or holds bytes, named here by the part of the array they
\* are (role) and the place of the array in the type tree (at)
Buf(role, at) == Some([role |-> role, at |-> at])

\* The buffers of an array of the type tpe at the place at, as the external
\* format lays them out: the validity bitmap (None where the array has no
\* nulls), the buffers of the type itself, the buffers of each child in order
OwnLayout(tpe, at) ==
    CASE tpe.tpe = "ListType" -> <<Buf("offsets", at)>>
      [] tpe.tpe = "StructType" -> <<>>
      [] tpe.tpe = "UnionType" /\ tpe.name = "sparse" -> <<Buf("tags", at), None>>
      [] tpe.tpe = "UnionType" -> <<Buf("tags", at), Buf("index", at)>>
      [] tpe.tpe = "DataType" /\ tpe.name \in {"string", "binary"} ->
            <<Buf("offsets", at), Buf("data", at)>>
      [] OTHER -> <<Buf("data", at)>>
HasChildren(tpe) == tpe.tpe \in {"ListType", "StructType", "UnionType"}
RECURSIVE Layout(_, _, _), LayoutChildren(_, _, _, _)
Layout(tpe, at, nulls) ==
    <<IF at \in nulls THEN Buf("mask", at) ELSE None>>
    \o OwnLayout(tpe, at)
    \o (IF HasChildren(tpe) THEN LayoutChildren(tpe, 1, at, nulls) ELSE <<>>)
LayoutChildren(tpe, i, at, nulls) ==
    IF i > Len(tpe.children) THEN <<>>
    ELSE Layout(tpe.children[i].type, Append(at, i), nulls)
         \o LayoutChildren(tpe, i + 1, at, nulls)

\* tpe.dictionary, an array of the values, and tpe.index_type
Dictionary(tpe) ==
    PyArray(tpe.children[1].type, 1, Layout(tpe.children[1].type, <<0>>, {}))
IndexType == DataType("int32")

\* buffers.pop(): the last buffer, and the list without it
Top(buffers) == buffers[Len(buffers)]
Pop(buffers) == SubSeq(buffers, 1, Len(buffers) - 1)

\* what popbuffers returns, and the buffers it leaves in the list
Popped(out, rest) == [err |-> "", out |-> out, rest |-> rest]
Failed(err) == [err |-> err, out |-> NoNode, rest |-> <<>>]

\* mask = buffers.pop(); a BitMaskedArray over out when there is a mask
WithMask(out, buffers) ==
    IF buffers = <<>> THEN Failed("IndexError")
    ELSE IF Top(buffers) = None THEN Popped(out, Pop(buffers))
    ELSE Popped(BitMaskedArray(Top(buffers)[1], out, FALSE, TRUE), Pop(buffers))

\* a wrong Own, which reads the buffers of the type from the front
OwnForward(cls, k, contents, buffers) ==
    IF Len(buffers) < k THEN Failed("IndexError")
    ELSE IF \E j \in 1..k : buffers[Len(buffers) - j + 1] = None THEN Failed("TypeError")
    ELSE WithMask(Awk(cls, [j \in 1..k |-> buffers[Len(buffers) - k + j][1]], contents),
                  SubSeq(buffers, 1, Len(buffers) - k))

\* numpy.frombuffer(buffers.pop(), ...) k times, the node over these arrays
\* and the contents, then its mask; frombuffer refuses None
Own(cls, k, contents, buffers) ==
    IF Len(buffers) < k THEN Failed("IndexError")
    ELSE IF \E j \in 1..k : buffers[Len(buffers) - j + 1] = None THEN Failed("TypeError")
    ELSE WithMask(Awk(cls, [j \in 1..k |-> buffers[Len(buffers) - j + 1][1]], contents),
                  SubSeq(buffers, 1, Len(buffers) - k))

\* IndexedArray(index, content), under the mask of the index when it has one
Indexed(index, content) ==
    IF content.err # "" THEN Failed(content.err)
    ELSE IF index.err # "" THEN Failed(index.err)
    ELSE IF index.out.cls = "BitMaskedArray"
    THEN Popped(BitMaskedArray(index.out.mask,
                               Awk("IndexedArray", <<>>, <<index.out.content, content.out>>),
                               index.out.maskedwhen, index.out.lsborder),
                index.rest)
    ELSE Popped(Awk("IndexedArray", <<>>, <<index.out, content.out>>), index.rest)

\* what popbuffers builds for a type: the class of the node and the number of
\* buffers of the type itself
ClassOf(tpe) ==
    CASE tpe.tpe = "StructType" -> "Table"
      [] tpe.tpe = "ListType" -> "JaggedArray"
      [] tpe.tpe = "UnionType" -> "UnionArray"
      [] tpe.name \in {"string", "binary"} -> "StringArray"
      [] tpe.name = "bool" -> "unpackbits"
      [] OTHER -> "ndarray"
OwnCount(tpe) ==
    CASE tpe.tpe = "StructType" -> 0
      [] tpe.tpe = "ListType" -> 1
      [] tpe.tpe = "UnionType" -> IF tpe.name = "sparse" THEN 1 ELSE 2
      [] tpe.name \in {"string", "binary"} -> 2
      [] OTHER -> 1

\* assert buffers.pop() is None of a sparse union
Asserted(tpe, buffers) ==
    IF tpe.tpe = "UnionType" /\ tpe.name = "sparse"
    THEN (IF buffers = <<>> THEN Failed("IndexError")
          ELSE IF Top(buffers) # None THEN Failed("AssertionError")
          ELSE Popped(<<>>, Pop(buffers)))
    ELSE Popped(<<>>, buffers)

\* the node of a type once its children are popped: r holds their nodes, a
\* the list after the assertion of a sparse union
OverAsserted(tpe, r, a) ==
    IF a.err # "" THEN a ELSE Own(ClassOf(tpe), OwnCount(tpe), r.out, a.rest)
OverContents(tpe, r) ==
    IF r.err # "" THEN r ELSE OverAsserted(tpe, r, Asserted(tpe, r.rest))

\* contents.insert(0, ...): the node of child i after those of the earlier
\* children, which are popped after it
Appended(earlier, r) ==
    IF earlier.err # "" THEN earlier ELSE Popped(Append(earlier.out, r.out), earlier.rest)

\* out = popbuffers(obj.type, buffers)[:len(obj)]; assert len(buffers) == 0
Complete(obj, r) ==
    IF r.err # "" THEN r
    ELSE IF r.rest # <<>> THEN Failed("AssertionError")
    ELSE Popped(Sliced(r.out, obj.len), <<>>)

\* fromarrow.popbuffers(tpe, buffers), the loop
\* for i in range(tpe.num_children - 1, -1, -1) from child i down, and
\* fromarrow(obj) of an array
RECURSIVE PopBuffers(_, _), PopChildren(_, _, _), Earlier(_, _, _), FromArrowArray(_)
PopBuffers(tpe, buffers) ==
    CASE tpe.tpe = "DictionaryType" ->
            Indexed(PopBuffers(IndexType, buffers), FromArrowArray(Dictionary(tpe)))
      [] tpe.tpe \in {"StructType", "ListType", "UnionType", "DataType"} ->
            OverContents(tpe, PopChildren(tpe, Len(tpe.children), buffers))
      [] OTHER -> Failed("NotImplementedError")
PopChildren(tpe, i, buffers) ==
    IF i = 0 THEN Popped(<<>>, buffers)
    ELSE Earlier(tpe, i, PopBuffers(tpe.children[i].type, buffers))
Earlier(tpe, i, r) ==
    IF r.err # "" THEN r ELSE Appended(PopChildren(tpe, i - 1, r.rest), r)
FromArrowArray(obj) == Complete(obj, PopBuffers(obj.type, obj.buffers))

\* len(x) of an array, of a record batch, of what fromarrow returns for one
\* (a table without columns has no rows) and of a chunked node
RECURSIVE AwkLen(_)
AwkLen(x) ==
    CASE x.cls = "pyarrow.Array" -> x.len
      [] x.cls = "pyarrow.RecordBatch" -> IF x.columns = <<>> THEN 0 ELSE x.columns[1].len
      [] x.cls = "[:]" -> x.own[1]
      [] x.cls = "Table" -> IF x.contents = <<>> THEN 0 ELSE AwkLen(x.contents[1])
      [] x.cls = "ChunkedArray" -> SumSeq(x.counts)
      [] OTHER -> 0

\* [x for x in chunks if len(x) > 0]
RECURSIVE NonEmpty(_)
NonEmpty(chunks) ==
    IF chunks = <<>> THEN <<>>
    ELSE (IF AwkLen(Head(chunks)) > 0 THEN <<Head(chunks)>> ELSE <<>>) \o NonEmpty(Tail(chunks))

\* one more converted object before those that follow it: the first failure
\* ends the conversion
Before(r, later) ==
    IF r.err # "" THEN r
    ELSE IF later.err # "" THEN later
    ELSE Popped(<<r.out>> \o later.out, <<>>)

\* [fromarrow(x) for x in xs] of arrays
RECURSIVE Converted(_)
Converted(xs) ==
    IF xs = <<>> THEN Popped(<<>>, <<>>)
    ELSE Before(FromArrowArray(Head(xs)), Converted(Tail(xs)))

\* fromarrow(obj) of a record batch: out = Table(); out[n] = fromarrow(x)
Tabled(names, r) == IF r.err # "" THEN r ELSE Popped(Awk("Table", names, r.out), <<>>)
FromRecordBatch(obj) == Tabled(obj.names, Converted(obj.columns))

\* chunk = fromarrow(batch) for batch in obj.to_batches()
RECURSIVE Batches(_)
Batches(bs) ==
    IF bs = <<>> THEN Popped(<<>>, <<>>)
    ELSE Before(FromRecordBatch(Head(bs)), Batches(Tail(bs)))

\* ChunkedArray(chunks, counts=counts)
Chunked(r, cnts) == IF r.err # "" THEN r ELSE Popped(ChunkedArray(r.out, cnts), <<>>)

\* the chunked-array case: chunks are the arrays that are not empty
FromChunks(chunks) ==
    IF Len(chunks) = 1 THEN Popped(chunks[1], <<>>)
    ELSE Chunked(Converted(chunks), [i \in DOMAIN chunks |-> AwkLen(chunks[i])])

\* the table case: chunks are the converted batches that are not empty
OneOrChunked(chunks) ==
    IF Len(chunks) = 1 THEN Popped(chunks[1], <<>>)
    ELSE Popped(ChunkedArray(chunks, [i \in DOMAIN chunks |-> AwkLen(chunks[i])]), <<>>)
FromBatches(r) == IF r.err # "" THEN r ELSE OneOrChunked(NonEmpty(r.out))

\* what fromarrow returns, with the buffers left in the list
Returned(r) ==
    IF r.err # "" THEN Raise(r.err)
    ELSE [err |-> "", kind |-> "fromarrow", arr |-> r.rest, tab |-> EmptyTable, node |-> r.out]

\* awkward.arrow.fromarrow(obj)
FromArrow(obj) ==
    Returned(CASE obj.cls = "pyarrow.Array" -> FromArrowArray(obj)
               [] obj.cls = "pyarrow.ChunkedArray" -> FromChunks(NonEmpty(obj.chunks))
               [] obj.cls = "pyarrow.RecordBatch" -> FromRecordBatch(obj)
               [] obj.cls = "pyarrow.Table" -> FromBatches(Batches(obj.batches))
               [] OTHER -> Failed("NotImplementedError"))

-----------------------------------------------------------------------------
(* Inputs *)

RECURSIVE SeqsUpTo(_, _)
SeqsUpTo(S, n) ==
    IF n = 0 THEN {<<>>}
    ELSE SeqsUpTo(S, n - 1) \cup
         {Append(s, x) : s \in {t \in SeqsUpTo(S, n - 1) : Len(t) = n - 1}, x \in S}

WInt(i) == [k |-> "int", i |-> i]
WSlice(a, b, c) == [k |-> "slice", sl |-> <<a, b, c>>]
WArray(a) == [k |-> "array", arr |-> a]
WMask(m) == [k |-> "mask", mask |-> m]
WStr(f) == [k |-> "str", f |-> f]
WTuple(row, inner) == [k |-> "tuple", row |-> row, inner |-> inner]

Ints == {WInt(i) : i \in -1..2}
Slices == {WSlice(None, None, None), WSlice(Some(1), None, None),
           WSlice(None, Some(-1), None), WSlice(Some(2), None, None),
           WSlice(None, None, Some(-1)), WSlice(None, None, Some(2))}
Arrays == {WArray(a) : a \in SeqsUpTo({0, 1}, 2) \cup {<<-1>>, <<2>>}}
Masks == {WMask(m) : m \in SeqsUpTo(BOOLEAN, 2)}
Fields == {WStr("x"), WStr("z")}
RowSelectors == Ints \cup Slices \cup Arrays \cup Masks

\* N[rows, inner]; the mask of the third form is N.counts > k for the same k,
\* which exists when starts and stops have one length
Tuples(n) ==
    {WTuple(r, WSlice(None, Some(-1), None)) : r \in Slices}
    \cup {WTuple(WSlice(None, None, None), WInt(k)) : k \in 0..1}
    \cup {WTuple(WMask([i \in 1..Len(n.starts) |-> n.stops[i] - n.starts[i] > k]), WInt(k))
            : k \in IF Len(n.starts) = Len(n.stops) THEN 0..1 ELSE {}}

Rows == {<<7>>, <<8, 9>>}
RightHandSides ==
    {Scalar(7)}
    \cup {Sequence(q) : q \in {<<>>, <<7>>, <<7, 8>>, <<7, 8, 9>>, <<7, 8, 9, 6>>}}
    \cup {Jagged(r) : r \in SeqsUpTo(Rows, 2) \cup {<<<<>>>>}}

\* what numpy.empty(len) may hold: any values; three patterns are followed
Garbage(len) == {[j \in 1..len |-> -1], [j \in 1..len |-> 0], [j \in 1..len |-> 100 + j]}

\* content of a new array: cell j holds base + j
Fresh(len, base) == [j \in 1..len |-> base + j]

\* numpy.cumsum
RECURSIVE CumSum(_, _)
CumSum(c, acc) == IF c = <<>> THEN <<>> ELSE <<acc + Head(c)>> \o CumSum(Tail(c), acc + Head(c))

\* the offsets of rows with the lengths c
OffsetsOf(c) == <<0>> \o CumSum(c, 0)

\* JaggedArray.fromoffsets: starts = offsets[:-1], stops = offsets[1:], which
\* are views of offsets when it is a numpy array and new lists when it is a list
FromOffsets(o, asArray, content, writeable) ==
    WithBase(JaggedArray(PySlice(o, 0, -1), PySlice(o, 1, Len(o)), content, writeable),
             IF asArray THEN SharedBase(o) ELSE None)

\* JaggedArray.fromcounts. numpy.cumsum(counts, offsets[1:]) passes offsets[1:]
\* as the axis. numpy converts an axis with operator.index, which an array
\* with a dimension refuses (TypeError); a build that still converts an array of
\* one element (`legacy`) takes the value of offsets[1] as the axis, and that
\* value is whatever numpy.empty left there (g): 0 and -1 are axes of counts,
\* any other value is out of range. Nothing is written to offsets[1:].
FromCounts(c, g, legacy, content, writeable) ==
    IF ~legacy \/ Len(c) # 1 THEN Raise("TypeError")
    ELSE IF g[1] \notin {0, -1} THEN Raise("AxisError")
    ELSE NodeRes(FromOffsets(<<0>> \o g, TRUE, content, writeable))

\* JaggedArray.fromiterable: offsets and content are Python lists
FromIterable(xs, writeable) ==
    FromOffsets(OffsetsOf([k \in 1..Len(xs) |-> Len(xs[k])]), FALSE, Column("a"), writeable)

RECURSIVE Extend(_)
Extend(xs) == IF xs = <<>> THEN <<>> ELSE Head(xs) \o Extend(Tail(xs))

\* ByteJaggedArray.fromiterable: the offsets, a numpy array, are multiplied by
\* the element size
ByteFromCounts(c, itemsize, writeable) ==
    LET offsets == OffsetsOf([k \in 1..Len(c) |-> c[k] * itemsize])
    IN WithBase(ByteJaggedArray(SubSeq(offsets, 1, Len(offsets) - 1),
                                SubSeq(offsets, 2, Len(offsets)), Column("a"), itemsize,
                                writeable),
                SharedBase(offsets))

CountVectors == SeqsUpTo(0..MaxCount, MaxRows)

\* ranges given to the constructor itself, over a content of DirectLen cells:
\* they overlap, leave gaps, run backwards or past the end
DirectRanges == {<<0, 2>>, <<1, 3>>, <<2, 1>>, <<1, 4>>}
DirectLayouts == SeqsUpTo(DirectRanges, MaxRows)
DirectLen == 3
First(layout) == [k \in 1..Len(layout) |-> layout[k][1]]
Second(layout) == [k \in 1..Len(layout) |-> layout[k][2]]

\* offsets given to fromoffsets: those of the count vectors, and arrays that
\* are empty, do not begin at 0 or decrease
OffsetVectors == {OffsetsOf(c) : c \in CountVectors} \cup {<<>>, <<1>>, <<1, 3>>, <<2, 1>>}

\* lists of lists given to fromiterable
Iterables == SeqsUpTo(Rows \cup {<<>>}, MaxRows)

\* Objects given to serialize: a graph of objects named by their identity;
\* an array has a dtype, a size in bytes and elements, any other object has
\* children, each in a context
Array(dtype, nbytes, data) ==
    [k |-> "ndarray", dtype |-> dtype, nbytes |-> nbytes, data |-> data, children |-> <<>>]
Awkward(children) ==
    [k |-> "awkward", dtype |-> "", nbytes |-> 0, data |-> <<>>, children |-> children]
Child(context, oid) == [context |-> context, oid |-> oid]

SmallInts == Array("int64", 16, <<0, 2>>)
BigInts == Array("int64", 8192, <<2, 3>>)
Floats == Array("float64", 8192, <<11, 12, 13>>)
JaggedOf(starts, stops, content) ==
    Awkward(<<Child("JaggedArray.starts", starts), Child("JaggedArray.stops", stops),
              Child("JaggedArray.content", content)>>)

\* object 0 is the one serialized
ObjectGraphs ==
    {<<SmallInts>>, <<BigInts>>, <<Floats>>,
     <<JaggedOf(1, 2, 3), SmallInts, BigInts, Floats>>,
     <<JaggedOf(1, 1, 2), BigInts, Floats>>,
     <<JaggedOf(1, 2, 0), SmallInts, BigInts>>}

Prefixes == {"", "p-"}

Contexts == {"JaggedArray.starts", "JaggedArray.stops", "JaggedArray.content"}
Zlib == <<"zlib", "decompress">>
Rule(minsize, types, contexts, decompress) ==
    [minsize |-> minsize, types |-> types, contexts |-> contexts, decompress |-> decompress]
DefaultCompression == <<Rule(8192, {"bool", "int64"}, Contexts, Zlib)>>
CompressionRules ==
    {DefaultCompression, <<>>,
     <<Rule(0, {"float64"}, {"JaggedArray.content"}, <<"lzma", "decompress">>),
       Rule(0, {"bool", "int64", "float64"}, Contexts, Zlib)>>}

\* fill trees found in a source
Gen(id, gen, args) == [t |-> "gen", id |-> id, gen |-> gen, args |-> args, key |-> "", v |-> 0]
Read(key) == [t |-> "read", id |-> None, gen |-> <<>>, args |-> <<>>, key |-> key, v |-> 0]
Ref(i) == [t |-> "ref", id |-> None, gen |-> <<>>, args |-> <<>>, key |-> "", v |-> i]
Lit(v) == [t |-> "lit", id |-> None, gen |-> <<>>, args |-> <<>>, key |-> "", v |-> v]

FromBuffer(id) ==
    Gen(Some(id), <<"numpy", "frombuffer">>,
        <<Read("0"), Gen(None, <<"awkward.persist", "json2dtype">>, <<Lit(64)>>), Lit(2)>>)
FillTrees ==
    {Lit(3), FromBuffer(0),
     Gen(Some(0), <<"os", "system">>, <<Lit(1)>>),
     Gen(Some(0), <<"awkward", "JaggedArray">>, <<FromBuffer(1), Ref(1), Lit(2)>>),
     Gen(Some(0), <<"awkward", "JaggedArray">>,
         <<FromBuffer(1), Gen(None, <<"pickle", "loads">>, <<Read("0")>>)>>)}

DefaultWhitelist ==
    {<<"numpy", "frombuffer">>, <<"zlib", "decompress">>, <<"awkward", "*">>,
     <<"awkward.persist", "*">>}
Whitelists == {DefaultWhitelist, {}, {<<"numpy", "frombuffer">>}}

Version == "0.12.17"
Document(prefix, tree) ==
    [doc |-> <<[awkward |-> Version, prefix |-> prefix, schema |-> tree]>>, bytes |-> <<>>]
Blob(bytes) == [doc |-> <<>>, bytes |-> bytes]

\* what a source may hold before a call: nothing, or a schema document at
\* the prefix and the blob it reads
Stores ==
    {EmptyStore}
    \cup {[key \in {Key(p, ""), Key(p, "0")} |->
             IF key[2] = "" THEN Document(p, t) ELSE Blob(<<0, 2>>)]
            : p \in Prefixes, t \in FillTrees}

\* External columnar bridge: the length of the arrays converted
ArrowLen == 2

Leaves == {NdArray(Fresh(ArrowLen, 4))}
BoolMasks == [1..ArrowLen -> BOOLEAN]
BitMasks == {<<b>> : b \in {0, 1, 2, 3, 64, 128, 192}}
IndexMasks == [1..ArrowLen -> -1..(ArrowLen - 1)]

\* the masked nodes, and the object node, over the contents C
NodesOver(C) ==
    {MaskedArray(m, c, w) : m \in BoolMasks, c \in C, w \in BOOLEAN}
    \cup {BitMaskedArray(m, c, w[1], w[2]) : m \in BitMasks, c \in C, w \in BOOLEAN \X BOOLEAN}
    \cup {IndexedMaskedArray(m, c) :
            m \in IndexMasks, c \in {x \in C : x.cls \in {"ndarray", "MaskedArray", "ObjectArray"}}}
    \cup {ObjectArray(c) : c \in C}

\* unions of two arrays: every element has a tag and an index into the array
\* of its tag
Unions ==
    {UnionArray(t, i, <<NdArray(Fresh(ArrowLen, 4)), NdArray(Fresh(ArrowLen, 6))>>) :
        t \in [1..ArrowLen -> 0..1], i \in [1..ArrowLen -> 0..(ArrowLen - 1)]}

\* what a caller passes to toarrow: an array, nodes nested up to twice over
\* it, an indexed mask over no content, chunks, masks shorter than the content,
\* a mask longer than the mask below it, a Python list, unions and unions
\* under a mask
ArrowInputs ==
    Leaves \cup NodesOver(Leaves) \cup NodesOver(NodesOver(Leaves))
    \cup {IndexedMaskedArray([i \in 1..ArrowLen |-> -1], NdArray(<<>>)),
          ChunkedArray(<<>>, <<>>),
          MaskedArray([i \in 1..(ArrowLen - 1) |-> TRUE],
                      MaskedArray([i \in 1..(ArrowLen - 1) |-> TRUE],
                                  NdArray(Fresh(ArrowLen, 4)), TRUE), TRUE),
          MaskedArray([i \in 1..(ArrowLen + 1) |-> TRUE],
                      MaskedArray([i \in 1..ArrowLen |-> TRUE],
                                  NdArray(Fresh(ArrowLen, 4)), TRUE), TRUE),
          [cls |-> "list"]}
    \cup Unions \cup {MaskedArray(m, u, TRUE) : m \in BoolMasks, u \in Unions}

\* what a caller passes to schema2type
DataTypes == {DataType(n) : n \in {"int64", "string", "bool"}}
TypesOver(T) ==
    {DictionaryType(t) : t \in T}
    \cup {ListType(t) : t \in T}
    \cup {UnionType(<<t, u>>) : t \in DataTypes, u \in T}
    \cup {StructType(<<Field("x", t, n)>>) : t \in T, n \in BOOLEAN}
ArrowTypes ==
    DataTypes \cup {Unknown} \cup TypesOver(DataTypes)
    \cup TypesOver({DataType("int64"), ListType(DataType("int64")),
                    DictionaryType(DataType("string")),
                    StructType(<<Field("x", DataType("bool"), TRUE)>>),
                    UnionType(<<DataType("int64"), DataType("string")>>)})
Schemas ==
    {<<Field("a", t, n)>> : t \in ArrowTypes, n \in BOOLEAN}
    \cup {<<Field("a", t, n), Field("b", DataType("string"), m)>> :
            t \in DataTypes, n \in BOOLEAN, m \in BOOLEAN}

\* what a caller passes to fromarrow: the places of the arrays in a type tree
RECURSIVE Places(_, _)
Places(tpe, at) ==
    {at} \cup (IF HasChildren(tpe)
               THEN UNION {Places(tpe.children[i].type, Append(at, i)) : i \in DOMAIN tpe.children}
               ELSE {})
FromTypes ==
    DataTypes \cup {DataType("binary"), Unknown}
    \cup {ListType(t) : t \in DataTypes}
    \cup {DictionaryType(t) : t \in DataTypes}
    \cup {StructType(<<Field("x", t, TRUE)>>) : t \in DataTypes}
    \cup {StructType(<<Field("x", DataType("int64"), TRUE), Field("y", t, TRUE)>>) :
            t \in {DataType("string"), ListType(DataType("int64"))}}
    \cup {UnionTypeMode(m, <<DataType("int64"), t>>) :
            m \in {"sparse", "dense"}, t \in {DataType("string"), ListType(DataType("bool"))}}
    \cup {ListType(ListType(DataType("int64"))), ListType(StructType(<<>>)),
          ListType(UnionTypeMode("sparse", <<DataType("int64"), DataType("string")>>)),
          DictionaryType(ListType(DataType("string")))}
\* buffers that do not follow the layout of the type: one missing, one more,
\* none, those of another type of the same kind
Misfits(t) ==
    {Tail(Layout(t, <<>>, {})), <<None>> \o Layout(t, <<>>, {}), <<>>}
    \cup {Layout(u, <<>>, {}) : u \in {v \in FromTypes : v.tpe = t.tpe /\ v # t}}
FromArrays ==
    UNION {{PyArray(t, n, Layout(t, <<>>, nulls)) :
              n \in {0, ArrowLen}, nulls \in SUBSET Places(t, <<>>)} : t \in FromTypes}
    \cup UNION {{PyArray(t, ArrowLen, b) : b \in Misfits(t)} : t \in FromTypes}
ArrowChunks ==
    {PyArray(DataType("int64"), n, Layout(DataType("int64"), <<>>, {})) : n \in 0..ArrowLen}
    \cup {PyArray(DataType("int64"), 1, <<>>)}
RecordBatches ==
    {RecordBatch(<<"x">>, <<c>>) : c \in ArrowChunks}
    \cup {RecordBatch(<<"x", "y">>,
                      <<c, PyArray(DataType("string"), c.len, Layout(DataType("string"), <<>>, {<<>>}))>>)
            : c \in ArrowChunks}
    \cup {RecordBatch(<<>>, <<>>)}
FromInputs ==
    FromArrays \cup RecordBatches
    \cup {PyChunkedArray(s) : s \in SeqsUpTo(ArrowChunks, ArrowLen + 1)}
    \cup {PyTable(s) : s \in SeqsUpTo(RecordBatches, ArrowLen)}
    \cup {[cls |-> "list"]}

-----------------------------------------------------------------------------
(* The state machine *)

NoOp == [k |-> "none"]

\* JaggedArray.fromoffsets over an array or a table, ByteJaggedArray.fromiterable
InitCompact ==
    /\ \E c \in CountVectors, wr \in BOOLEAN :
         \/ /\ root = FromOffsets(OffsetsOf(c), TRUE, Column("a"), wr)
            /\ heap = [col \in {"a"} |-> Fresh(SumSeq(c), 10)]
         \/ /\ root = FromOffsets(OffsetsOf(c), TRUE, TableContent, wr)
            /\ heap = [col \in {"x", "y"} |-> Fresh(SumSeq(c), IF col = "x" THEN 10 ELSE 20)]
         \/ /\ root = ByteFromCounts(c, ItemSize, wr)
            /\ heap = [col \in {"a"} |-> Fresh(SumSeq(c) * ItemSize, 10)]
    /\ cur = root
    /\ depth = 0
    /\ op = "init"
    /\ where = NoOp
    /\ what = NoOp
    /\ res = Done
    /\ old = heap

\* JaggedArray(starts, stops, content, writeable) on arrays of the caller
InitDirect ==
    /\ \E l \in DirectLayouts, wr \in BOOLEAN :
         root = JaggedArray(First(l), Second(l), Column("a"), wr)
    /\ heap = [col \in {"a"} |-> Fresh(DirectLen, 10)]
    /\ cur = root
    /\ depth = 0
    /\ op = "init"
    /\ where = NoOp
    /\ what = NoOp
    /\ res = Done
    /\ old = heap

\* JaggedArray(starts, stops, content, writeable) on index arrays that
\* _check_startsstops has not seen: of one or two dimensions, integer or not,
\* of equal or unequal lengths
IndexLayouts ==
    {<<<<>>, <<>>>>, <<<<0>>, <<2>>>>, <<<<0>>, <<2, 3>>>>, <<<<0, 1>>, <<2>>>>, <<<<>>, <<2>>>>}
InitUnchecked ==
    /\ \E l \in IndexLayouts, wr \in BOOLEAN,
          ndim \in {1, 2} \X {1, 2}, dtype \in {"int64", "float64"} \X {"int64", "float64"} :
         root = OfArrays(JaggedArray(l[1], l[2], Column("a"), wr), ndim, dtype)
    /\ heap = [col \in {"a"} |-> Fresh(DirectLen, 10)]
    /\ cur = root
    /\ depth = 0
    /\ op = "init"
    /\ where = NoOp
    /\ what = NoOp
    /\ res = Done
    /\ old = heap

\* ByteJaggedArray(starts, stops, content, dtype, writeable) on byte ranges of
\* the caller: every range of the content for one row, aligned and misaligned
\* ranges for two rows, and ranges that are not ranges of the content
ByteLen == 2 * ItemSize + 1
ByteRanges == {r \in (0..ByteLen) \X (0..ByteLen) : r[1] <= r[2]}
ByteLayouts ==
    {<<r>> : r \in ByteRanges \cup {<<2, 1>>, <<ByteLen - 1, ByteLen + 1>>}}
    \cup {<<r, q>> : r \in {<<0, ItemSize>>, <<1, 1 + ItemSize>>, <<1, 2>>},
                     q \in {<<0, ItemSize>>, <<1, 1 + ItemSize>>, <<ItemSize, 2 * ItemSize>>}}
InitBytes ==
    /\ \E l \in ByteLayouts, wr \in BOOLEAN :
         root = ByteJaggedArray(First(l), Second(l), Column("a"), ItemSize, wr)
    /\ heap = [col \in {"a"} |-> Fresh(ByteLen, 10)]
    /\ cur = root
    /\ depth = 0
    /\ op = "init"
    /\ where = NoOp
    /\ what = NoOp
    /\ res = Done
    /\ old = heap

\* Nodes whose views are assigned to: rows that overlap, rows apart, rows out
\* of their order and an empty row, over an array; a compact node over a
\* table; a compact node over bytes
ViewLayouts ==
    {<<<<0, 2>>, <<1, 3>>>>, <<<<0, 1>>, <<2, 3>>>>, <<<<1, 3>>, <<0, 1>>>>, <<<<1, 1>>, <<0, 3>>>>}
InitViews ==
    /\ \E wr \in BOOLEAN :
         \/ /\ \E l \in ViewLayouts : root = JaggedArray(First(l), Second(l), Column("a"), wr)
            /\ heap = [col \in {"a"} |-> Fresh(DirectLen, 10)]
         \/ /\ root = FromOffsets(<<0, 1, DirectLen>>, TRUE, TableContent, wr)
            /\ heap = [col \in {"x", "y"} |-> Fresh(DirectLen, IF col = "x" THEN 10 ELSE 20)]
         \/ /\ root = ByteFromCounts(<<1, 1>>, ItemSize, wr)
            /\ heap = [col \in {"a"} |-> Fresh(2 * ItemSize, 10)]
    /\ cur = root
    /\ depth = 0
    /\ op = "init"
    /\ where = NoOp
    /\ what = NoOp
    /\ res = Done
    /\ old = heap

\* An operation is called when the caller holds no pending result.
Idle == op \in {"init", "view"}

\* result = cur[where]
DoGetItem ==
    \E w \in RowSelectors \cup Fields \cup Tuples(cur) :
        /\ Idle
        /\ op' = "getitem"
        /\ where' = w
        /\ what' = NoOp
        /\ res' = GetItem(cur, heap, w)
        /\ old' = heap
        /\ cur' = AfterGetItem(cur, w)
        /\ root' = IF depth = 0 THEN AfterGetItem(cur, w) ELSE root
        /\ UNCHANGED <<heap, depth>>

\* the caller goes on with the node that cur[where] returned
UseView ==
    /\ op = "getitem"
    /\ res.kind = "node"
    /\ depth < MaxChain
    /\ cur' = res.node
    /\ depth' = depth + 1
    /\ op' = "view"
    /\ where' = NoOp
    /\ res' = Done
    /\ UNCHANGED <<heap, root, what, old>>

\* cur[where] = what
\* (cells of a table are assigned by the table, which is not part of this
\* module: a writeable node over a table is only assigned by field name)
DoSetItem ==
    \E w \in RowSelectors \cup Fields, x \in RightHandSides :
        /\ Idle
        /\ (cur.content.tab /\ cur.writeable) => w.k = "str"
        /\ w.k = "int" => x.k # "jagged"
        /\ heap' = SetItem(cur, heap, w, x).heap
        /\ res' = Raise(SetItem(cur, heap, w, x).err)
        /\ op' = "setitem"
        /\ where' = w
        /\ what' = x
        /\ old' = heap
        /\ cur' = AfterSetItem(cur, w)
        /\ root' = IF depth = 0 THEN AfterSetItem(cur, w) ELSE root
        /\ UNCHANGED depth

\* row = cur[where] is an array; row[...] = what
DoAssignRow ==
    \E x \in {Scalar(7), Sequence(<<7, 8>>)} :
        /\ op = "getitem"
        /\ where.k = "int"
        /\ res.kind = "array"
        /\ heap' = AssignRow(cur, heap, where, x).heap
        /\ res' = Raise(AssignRow(cur, heap, where, x).err)
        /\ op' = "assignrow"
        /\ what' = x
        /\ old' = heap
        /\ UNCHANGED <<root, cur, depth, where>>

\* result = cur.parents
DoParents ==
    \E g \in Garbage(ContentLen(cur, heap)) :
        /\ Idle
        /\ op' = "parents"
        /\ where' = NoOp
        /\ what' = NoOp
        /\ res' = Parents(cur, heap, g)
        /\ old' = heap
        /\ UNCHANGED <<heap, root, cur, depth>>

\* result = cur.offsets
DoOffsets ==
    \E empty \in BOOLEAN :
        /\ Idle
        /\ op' = "offsets"
        /\ where' = NoOp
        /\ what' = NoOp
        /\ res' = Offsets(cur, empty)
        /\ old' = heap
        /\ UNCHANGED <<heap, root, cur, depth>>

\* the caller is done with the result of the last operation and holds the
\* node as before it.
\* A run is followed up to its first assignment that changes the content: no
\* branch of the code reads a content cell, so what an operation does never
\* depends on what was written before it.
Return ==
    /\ ~Idle
    /\ heap = old
    /\ op' = IF depth = 0 THEN "init" ELSE "view"
    /\ where' = NoOp
    /\ what' = NoOp
    /\ res' = Done
    /\ UNCHANGED <<heap, root, cur, depth, old>>

Init == InitCompact \/ InitDirect

\* reading: indexing, views of views, parents, offsets
Next == DoGetItem \/ UseView \/ DoParents \/ DoOffsets \/ Return

Spec == Init /\ [][Next]_vars

\* Construction: the caller holds a content array and calls one constructor
InitBuild ==
    /\ \E len \in 0..DirectLen : heap = [col \in {"a"} |-> Fresh(len, 10)]
    /\ root = NoNode
    /\ cur = NoNode
    /\ depth = 0
    /\ op = "init"
    /\ where = NoOp
    /\ what = NoOp
    /\ res = Done
    /\ old = heap

\* the node a constructor returned, if it returned one
Built(r) == IF r.kind = "node" THEN r.node ELSE NoNode

\* result = JaggedArray.fromoffsets(o, content, writeable)
DoFromOffsets ==
    \E o \in OffsetVectors, asArray \in BOOLEAN, wr \in BOOLEAN :
        /\ op = "init" /\ root = NoNode
        /\ op' = "fromoffsets"
        /\ where' = [k |-> "offsets", o |-> o]
        /\ res' = NodeRes(FromOffsets(o, asArray, Column("a"), wr))
        /\ root' = Built(res')
        /\ cur' = Built(res')
        /\ old' = heap
        /\ UNCHANGED <<heap, depth, what>>

\* result = JaggedArray.fromcounts(c, content, writeable)
DoFromCounts ==
    \E c \in CountVectors, legacy \in BOOLEAN, wr \in BOOLEAN :
      \E g \in Garbage(Len(c)) :
        /\ op = "init" /\ root = NoNode
        /\ op' = "fromcounts"
        /\ where' = [k |-> "counts", c |-> c]
        /\ res' = FromCounts(c, g, legacy, Column("a"), wr)
        /\ root' = Built(res')
        /\ cur' = Built(res')
        /\ old' = heap
        /\ UNCHANGED <<heap, depth, what>>

\* result = JaggedArray.fromiterable(xs, writeable): the content is the list
\* the constructor fills
DoFromIterable ==
    \E xs \in Iterables, wr \in BOOLEAN :
        /\ op = "init" /\ root = NoNode
        /\ op' = "fromiterable"
        /\ where' = [k |-> "iterable", xs |-> xs]
        /\ res' = NodeRes(FromIterable(xs, wr))
        /\ root' = Built(res')
        /\ cur' = Built(res')
        /\ heap' = [col \in {"a"} |-> Extend(xs)]
        /\ old' = heap'
        /\ UNCHANGED <<depth, what>>

NextBuild == DoFromOffsets \/ DoFromCounts \/ DoFromIterable \/ Return

SpecBuild == InitBuild /\ [][NextBuild]_vars

\* Persistence: heap is the store the caller passes as sink or source
InitPersist ==
    /\ heap \in Stores
    /\ root = NoNode
    /\ cur = NoNode
    /\ depth = 0
    /\ op = "init"
    /\ where = NoOp
    /\ what = NoOp
    /\ res = Done
    /\ old = heap

\* what the caller knows to be in the store: the objects a call of serialize
\* that returned has written under a prefix
Stored(g, p) == [cls |-> "stored", graph |-> g, prefix |-> p]

\* result = serialize(obj, heap, prefix, compression)
DoSerialize ==
    \E g \in ObjectGraphs, p \in Prefixes, c \in CompressionRules :
        /\ Idle
        /\ op' = "serialize"
        /\ where' = [k |-> "serialize", prefix |-> p, compression |-> c]
        /\ what' = [k |-> "objects", graph |-> g]
        /\ heap' = Serialize(g, heap, p, c).sink
        /\ res' = Raise(Serialize(g, heap, p, c).err)
        /\ old' = heap
        /\ root' = IF Serialize(g, heap, p, c).err = "" THEN Stored(g, p) ELSE root
        /\ UNCHANGED <<cur, depth>>

\* result = deserialize(heap, prefix, whitelist)
DoDeserialize ==
    \E p \in Prefixes, wl \in Whitelists :
        /\ Idle
        /\ op' = "deserialize"
        /\ where' = [k |-> "deserialize", prefix |-> p, whitelist |-> wl]
        /\ what' = NoOp
        /\ res' = Deserialize(heap, p, wl)
        /\ old' = heap
        /\ UNCHANGED <<heap, root, cur, depth>>

NextPersist == DoSerialize \/ DoDeserialize \/ Return

SpecPersist == InitPersist /\ [][NextPersist]_vars

\* External columnar bridge: the caller holds nothing between two calls
InitArrow ==
    /\ heap = EmptyStore
    /\ root = NoNode
    /\ cur = NoNode
    /\ depth = 0
    /\ op = "init"
    /\ where = NoOp
    /\ what = NoOp
    /\ res = Done
    /\ old = heap

\* result = toarrow(obj)
DoToArrow ==
    \E obj \in ArrowInputs, garbage \in {0, 99}, last \in BOOLEAN :
        /\ Idle
        /\ op' = "toarrow"
        /\ where' = NoOp
        /\ what' = [k |-> "obj", obj |-> obj]
        /\ res' = ToArrow(obj, garbage, last)
        /\ UNCHANGED <<heap, root, cur, depth, old>>

\* result = schema2type(schema)
DoSchema2Type ==
    \E schema \in Schemas :
        /\ Idle
        /\ op' = "schema2type"
        /\ where' = NoOp
        /\ what' = [k |-> "schema", schema |-> schema]
        /\ res' = Schema2Type(schema)
        /\ UNCHANGED <<heap, root, cur, depth, old>>

\* result = fromarrow(obj)
DoFromArrow ==
    \E obj \in FromInputs :
        /\ Idle
        /\ op' = "fromarrow"
        /\ where' = NoOp
        /\ what' = [k |-> "obj", obj |-> obj]
        /\ res' = FromArrow(obj)
        /\ UNCHANGED <<heap, root, cur, depth, old>>

NextArrow == DoToArrow \/ DoSchema2Type \/ DoFromArrow \/ Return

SpecArrow == InitArrow /\ [][NextArrow]_vars

\* assignment to the constructed node
NextAssign == DoSetItem \/ Return

SpecAssign == Init /\ [][NextAssign]_vars

\* indexing of and assignment to a node over unchecked index arrays
NextUnchecked == DoGetItem \/ UseView \/ DoSetItem \/ Return

SpecUnchecked == InitUnchecked /\ [][NextUnchecked]_vars

\* indexing of and assignment to a node over byte ranges
NextBytes == DoGetItem \/ UseView \/ DoSetItem \/ Return

SpecBytes == InitBytes /\ [][NextBytes]_vars

\* indexing of and assignment to a node, its views and its rows
NextViews == DoGetItem \/ UseView \/ DoSetItem \/ DoAssignRow \/ Return

SpecViews == InitViews /\ [][NextViews]_vars

-----------------------------------------------------------------------------
(* Vocabulary of the properties *)

\* the structural invariant of a jagged node
Valid(n, hp) ==
    /\ Len(n.starts) = Len(n.stops)
    /\ \A i \in 1..Len(n.starts) :
         0 <= n.starts[i] /\ n.starts[i] <= n.stops[i] /\ n.stops[i] <= ContentLen(n, hp)

\* cells s+1 .. e of c (1-based), that is c[s:e] for 0 <= s <= e <= len(c)
Range(c, s, e) == [k \in 1..(e - s) |-> c[s + k]]

\* a selector of several rows that numpy accepts on the index arrays of n
SelectsRows(n, w) ==
    /\ w.k \in {"slice", "array", "mask"}
    /\ Index1D(Len(n.starts), w).err = ""
    /\ Index1D(Len(n.stops), w).err = ""

\* the rows of n it selects, in order (0-based)
Selected(n, w) == Index1D(Len(n.starts), w).idx

Plain(n) == n.cls = "JaggedArray" /\ ~n.content.tab

-----------------------------------------------------------------------------
C1_Case ==
    /\ op = "getitem" /\ where.k = "int"
    /\ cur.cls = "JaggedArray"
    /\ Valid(cur, heap)
    /\ 0 <= where.i /\ where.i < Len(cur.starts)

(* C1: on a JaggedArray that satisfies 0 <= starts[i] <= stops[i] <=
   len(content), N[i] for 0 <= i < len(N) is content[starts[i]:stops[i]]
   (of every column, when the content is a table) and has counts[i] =
   stops[i] - starts[i] elements. *)
C1_RowIsContentRange ==
    C1_Case =>
      /\ res.err = ""
      /\ counts(cur).err = ""
      /\ IF cur.content.tab
         THEN /\ res.kind = "table"
              /\ \A c \in DOMAIN heap :
                   /\ res.tab[c] = Range(heap[c], cur.starts[where.i + 1], cur.stops[where.i + 1])
                   /\ Len(res.tab[c]) = counts(cur).v[where.i + 1]
         ELSE /\ res.kind = "array"
              /\ res.arr = Range(heap[cur.content.col], cur.starts[where.i + 1],
                                 cur.stops[where.i + 1])
              /\ Len(res.arr) = counts(cur).v[where.i + 1]

C1_Witness ==
    /\ C1_Case
    /\ where.i = 1
    /\ res.kind = "array"
    /\ Len(res.arr) = 2

C2_Case ==
    /\ op = "getitem"
    /\ cur.cls = "JaggedArray"
    /\ SelectsRows(cur, where)

(* C2: for a slice, an integer array or a boolean array s, N[s] is a jagged
   node with starts[s] and stops[s] over the content of N itself (the same
   buffer, neither copied nor cut); its row k is the k-th row of N that s
   selects. *)
C2_ViewSharesContent ==
    C2_Case =>
      /\ res.err = "" /\ res.kind = "node"
      /\ res.node.cls = "JaggedArray"
      /\ res.node.starts = Gather(cur.starts, Selected(cur, where))
      /\ res.node.stops = Gather(cur.stops, Index1D(Len(cur.stops), where).idx)
      /\ res.node.content = cur.content
      /\ heap = old
      /\ Len(cur.starts) = Len(cur.stops) =>
           /\ Len(res.node.starts) = Len(Selected(cur, where))
           /\ \A k \in 1..Len(Selected(cur, where)) :
                GetItem(res.node, heap, WInt(k - 1))
                  = GetItem(cur, heap, WInt(Selected(cur, where)[k]))

C2_Witness ==
    /\ C2_Case
    /\ where.k = "array" /\ where.arr = <<1, 0>>
    /\ res.kind = "node"
    /\ res.node.starts = <<2, 0>> /\ res.node.stops = <<3, 2>>

\* row i (0-based) of a node over a plain array, as a list
RowOf(n, hp, i) == Range(hp[n.content.col], n.starts[i + 1], n.stops[i + 1])

\* the inner selector of N[rows, inner] can be applied to every selected row
InnerFits(n, hp, w) ==
    \A k \in 1..Len(Selected(n, w.row)) :
      Index1D(Len(RowOf(n, hp, Selected(n, w.row)[k])), w.inner).err = ""

\* row k (1-based) of the selection with the inner selector applied
InnerOf(n, hp, w, k) ==
    Gather(RowOf(n, hp, Selected(n, w.row)[k]),
           Index1D(Len(RowOf(n, hp, Selected(n, w.row)[k])), w.inner).idx)

C3_Case ==
    /\ op = "getitem" /\ where.k = "tuple"
    /\ Plain(cur) /\ Valid(cur, heap)
    /\ SelectsRows(cur, where.row)

(* C3: N[rows, inner] selects the rows and applies inner to each of them: with
   a slice it gives the rows cut by the slice, with an integer k the k-th
   element of every selected row; it fails with an index error exactly when
   inner does not fit some selected row, so N[:, k] needs every row longer
   than k and N[N.counts > k, k] always succeeds. *)
C3_InnerSelection ==
    C3_Case =>
      IF InnerFits(cur, heap, where)
      THEN /\ res.err = ""
           /\ IF where.inner.k = "int"
              THEN /\ res.kind = "array"
                   /\ res.arr = [k \in 1..Len(Selected(cur, where.row)) |->
                                   InnerOf(cur, heap, where, k)[1]]
              ELSE /\ res.kind = "node"
                   /\ Len(res.node.starts) = Len(Selected(cur, where.row))
                   /\ \A k \in 1..Len(Selected(cur, where.row)) :
                        GetItem(res.node, heap, WInt(k - 1))
                          = ArrayRes(InnerOf(cur, heap, where, k))
      ELSE res.err = "IndexError"

C4_Case ==
    /\ op = "getitem" /\ where.k = "str"
    /\ cur.cls = "JaggedArray"
    /\ HasField(cur, heap, where.f)

(* C4: on a node over a table, N[f] for a field f of the table is a node with
   the starts and stops of N over the column f, and N[f][i] is the field f
   of N[i] for every row i. *)
C4_FieldCommutes ==
    C4_Case =>
      /\ res.err = "" /\ res.kind = "node"
      /\ res.node.starts = cur.starts
      /\ res.node.stops = cur.stops
      /\ res.node.content = Column(where.f)
      /\ \A i \in 0..(Len(cur.starts) - 1) :
           /\ GetItem(cur, heap, WInt(i)).kind = "table"
           /\ GetItem(res.node, heap, WInt(i))
                = ArrayRes(GetItem(cur, heap, WInt(i)).tab[where.f])

C4_Witness ==
    /\ C4_Case
    /\ where.f = "x"
    /\ cur.starts = <<0, 2>> /\ cur.stops = <<2, 3>>
    /\ res.kind = "node"
    /\ GetItem(res.node, heap, WInt(0)).arr = <<11, 12>>

\* position j (0-based) of the content lies in row i (1-based) of n
Covers(n, i, j) == n.starts[i] <= j /\ j < n.stops[i]

\* the k-th selected row (k 1-based) as a row of n (1-based)
Sel(n, w, k) == Selected(n, w)[k] + 1

\* no row selected after the k-th shares a cell with it
NotWrittenAgain(n, hp, w, k) ==
    \A l \in (k + 1)..Len(Selected(n, w)) : \A j \in 0..(ContentLen(n, hp) - 1) :
      ~(Covers(n, Sel(n, w, k), j) /\ Covers(n, Sel(n, w, l), j))

\* the number of elements of row i (1-based) of n
RowLen(n, i) == (n.stops[i] - n.starts[i]) \div n.itemsize

\* the number of elements of the first k selected rows
RECURSIVE SelectedLen(_, _, _)
SelectedLen(n, w, k) ==
    IF k = 0 THEN 0 ELSE SelectedLen(n, w, k - 1) + RowLen(n, Sel(n, w, k))

\* an assignment to a node that can be written and keeps the invariant
AssignCase ==
    /\ op = "setitem"
    /\ cur.writeable
    /\ ~cur.content.tab
    /\ Valid(cur, old)

C5_Case ==
    /\ op = "setitem"
    /\ ~cur.writeable
    /\ where.k = "str" => HasField(cur, old, where.f)

(* C5: an assignment to a node that is not writeable fails with the
   read-only error and leaves the content as it was, whatever the selector:
   an integer, a slice, an array or the name of a field of the content. *)
C5_ReadOnlyFails ==
    C5_Case => (res.err = "ReadOnly" /\ heap = old)

C6_Case ==
    /\ AssignCase
    /\ cur.cls = "JaggedArray"
    /\ what.k = "jagged"
    /\ SelectsRows(cur, where)

(* C6: a jagged right-hand side W assigned to a selection of several rows:
   when W has as many sublists as rows are selected, the range of the k-th
   selected row becomes W[k] for every k; otherwise the assignment fails
   with the length-mismatch error. *)
C6_SublistsAssigned ==
    C6_Case =>
      IF Len(what.rows) = Len(Selected(cur, where))
      THEN /\ res.err = ""
           /\ \A k \in 1..Len(what.rows) :
                Range(heap[cur.content.col], cur.starts[Sel(cur, where, k)],
                      cur.stops[Sel(cur, where, k)]) = what.rows[k]
      ELSE res.err = "LengthMismatch"

(* C6, amended: when W has as many sublists as rows are selected and every
   W[k] has the length of the k-th selected row, the assignment succeeds and
   the range of the k-th selected row holds W[k] for every k whose range no
   later selected row writes again; when the number of sublists differs, the
   assignment fails with the length-mismatch error. *)
C6_FittingSublistsAssigned ==
    C6_Case =>
      IF Len(what.rows) # Len(Selected(cur, where))
      THEN res.err = "LengthMismatch"
      ELSE (\A k \in 1..Len(what.rows) :
              Len(what.rows[k]) = RowLen(cur, Sel(cur, where, k)))
           => /\ res.err = ""
              /\ \A k \in 1..Len(what.rows) :
                   NotWrittenAgain(cur, old, where, k) =>
                     Range(heap[cur.content.col], cur.starts[Sel(cur, where, k)],
                           cur.stops[Sel(cur, where, k)]) = what.rows[k]

C6_Witness ==
    /\ C6_Case
    /\ cur.starts = <<0, 1>> /\ cur.stops = <<1, 3>>
    /\ where = WSlice(None, None, None)
    /\ what = Jagged(<<<<7>>, <<8, 9>>>>)
    /\ res.err = ""
    /\ heap[cur.content.col] = <<7, 8, 9>>

C7_Case ==
    /\ AssignCase
    /\ what.k = "seq" /\ Len(what.seq) = 1
    /\ where.k # "str"
    /\ Index1D(Len(cur.starts), where).err = ""

(* C7: a sequence of length 1 that is not jagged is broadcast: after the
   assignment every element of every selected row is what[0]. *)
C7_BroadcastsOne ==
    C7_Case =>
      /\ res.err = ""
      /\ \A k \in 1..Len(Selected(cur, where)) :
           /\ GetItem(cur, heap, WInt(Selected(cur, where)[k])).kind = "array"
           /\ \A j \in 1..RowLen(cur, Sel(cur, where, k)) :
                GetItem(cur, heap, WInt(Selected(cur, where)[k])).arr[j] = what.seq[1]

C7_Witness ==
    /\ C7_Case
    /\ where = WSlice(None, None, None)
    /\ cur.cls = "JaggedArray"
    /\ cur.starts = <<0, 2>> /\ cur.stops = <<2, 3>>
    /\ res.err = ""
    /\ heap[cur.content.col] = <<7, 7, 7>>

C8_Case ==
    /\ AssignCase
    /\ what.k = "seq" /\ Len(what.seq) # 1
    /\ SelectsRows(cur, where)

(* C8: a sequence of length n # 1 that is not jagged is accepted exactly
   when n is the number of selected elements, and its elements then go to
   the selected rows in order (a row written again by a later selected row
   holds what the later one received); any other n fails, also when nothing
   is selected. *)
C8_SequenceLength ==
    C8_Case =>
      IF Len(what.seq) = SelectedLen(cur, where, Len(Selected(cur, where)))
      THEN /\ res.err = ""
           /\ \A k \in 1..Len(Selected(cur, where)) :
                NotWrittenAgain(cur, old, where, k) =>
                  GetItem(cur, heap, WInt(Selected(cur, where)[k]))
                    = ArrayRes(Range(what.seq, SelectedLen(cur, where, k - 1),
                                     SelectedLen(cur, where, k)))
      ELSE res.err # ""

(* C9: an assignment that fails (a wrong number of sublists, a sequence of
   the wrong length, a sublist that does not fit the row it goes to) leaves
   the content as it was. *)
C9_FailureWritesNothing ==
    (op = "setitem" /\ res.err # "") => heap = old

C10_Case ==
    /\ op = "parents"
    /\ Valid(cur, heap)

(* C10: parents has the length of the content, and parents[j] = i for every
   row i and every position j of its range. *)
C10_ParentsOfEveryRow ==
    C10_Case =>
      /\ res.err = "" /\ res.kind = "array"
      /\ Len(res.arr) = ContentLen(cur, heap)
      /\ \A i \in 1..Len(cur.starts) : \A j \in 0..(ContentLen(cur, heap) - 1) :
           Covers(cur, i, j) => res.arr[j + 1] = i - 1

(* C10, amended: parents has the length of the content, and parents[j] = i
   for every row i and every position j of its range that lies in the range
   of no later row. *)
C10_ParentsOfLastRow ==
    C10_Case =>
      /\ res.err = "" /\ res.kind = "array"
      /\ Len(res.arr) = ContentLen(cur, heap)
      /\ \A i \in 1..Len(cur.starts) : \A j \in 0..(ContentLen(cur, heap) - 1) :
           (Covers(cur, i, j) /\ \A l \in (i + 1)..Len(cur.starts) : ~Covers(cur, l, j))
             => res.arr[j + 1] = i - 1

C10_Witness ==
    /\ C10_Case
    /\ cur.starts = <<0, 2>> /\ cur.stops = <<2, 3>>
    /\ res.kind = "array"
    /\ res.arr = <<0, 0, 1>>

\* the compact form: no gaps, no overlaps, beginning at 0
Compact(n) ==
    /\ Len(n.starts) = Len(n.stops)
    /\ Len(n.starts) > 0 => n.starts[1] = 0
    /\ \A i \in 1..(Len(n.starts) - 1) : n.stops[i] = n.starts[i + 1]

(* C11: the constructors build compact nodes: fromcounts(c, content) has
   starts[0] = 0, stops[i] = starts[i+1] and counts = c; fromoffsets(o,
   content) has counts[i] = o[i+1] - o[i] and, when it has a row, offsets =
   o; fromiterable(xs) has counts[i] = len(xs[i]) and the concatenation of
   the xs as content. *)
C11_ConstructorsCompact ==
    /\ op = "fromcounts" =>
         /\ res.err = "" /\ res.kind = "node"
         /\ Compact(res.node)
         /\ counts(res.node) = [err |-> "", v |-> where.c]
    /\ (op = "fromoffsets" /\ Len(where.o) >= 1) =>
         /\ res.err = "" /\ res.kind = "node"
         /\ counts(res.node)
              = [err |-> "", v |-> [i \in 1..(Len(where.o) - 1) |-> where.o[i + 1] - where.o[i]]]
         /\ Len(where.o) >= 2 =>
              \A empty \in BOOLEAN : Offsets(res.node, empty) = ArrayRes(where.o)
    /\ op = "fromiterable" =>
         /\ res.err = "" /\ res.kind = "node"
         /\ Compact(res.node)
         /\ counts(res.node)
              = [err |-> "", v |-> [i \in 1..Len(where.xs) |-> Len(where.xs[i])]]
         /\ heap[res.node.content.col] = Extend(where.xs)

(* C12: a node has offsets exactly when it is compact: on a compact node of
   length L >= 0 the offsets property returns L+1 values with offsets[i] =
   starts[i] and offsets[L] = stops[L-1]; on any other node it fails. *)
C12_OffsetsIffCompact ==
    op = "offsets" =>
      IF Compact(cur)
      THEN /\ res.err = "" /\ res.kind = "array"
           /\ Len(res.arr) = Len(cur.starts) + 1
           /\ \A i \in 1..Len(cur.starts) : res.arr[i] = cur.starts[i]
           /\ Len(cur.starts) > 0 => res.arr[Len(cur.starts) + 1] = cur.stops[Len(cur.stops)]
      ELSE res.err # ""

ValueRes(v) == [err |-> "", kind |-> "value", arr |-> <<>>, tab |-> EmptyTable, node |-> v]

\* the schema document a store holds at a prefix
HasDocument(store, p) == Key(p, "") \in DOMAIN store /\ store[Key(p, "")].doc # <<>>
DocumentAt(store, p) == store[Key(p, "")].doc[1]

\* the dotted paths a fill tree calls
RECURSIVE Gens(_)
Gens(t) ==
    IF t.t = "gen" THEN {t.gen} \cup UNION {Gens(t.args[i]) : i \in DOMAIN t.args} ELSE {}

\* a dotted path the whitelist permits: listed itself, or its module with "*"
Matched(gen, wl) == gen \in wl \/ <<gen[1], "*">> \in wl

\* the nodes of a fill tree
RECURSIVE Nodes(_)
Nodes(t) == {t} \cup UNION {Nodes(t.args[i]) : i \in DOMAIN t.args}

\* an object of the graph is met a second time: shared, or contained in itself
HasBackReference(g) ==
    \E i \in DOMAIN g : \E a \in DOMAIN g[i].children :
      \/ g[i].children[a].oid = 0
      \/ \E j \in DOMAIN g : \E b \in DOMAIN g[j].children :
           <<j, b>> # <<i, a>> /\ g[j].children[b].oid = g[i].children[a].oid

\* the context in which object oid is met first (none for the object serialized)
ChildrenOf(g) == UNION {{g[i].children[a] : a \in DOMAIN g[i].children} : i \in DOMAIN g}

ContextOf(g, oid) ==
    IF \E c \in ChildrenOf(g) : c.oid = oid
    THEN (CHOOSE c \in ChildrenOf(g) : c.oid = oid).context
    ELSE "None"

\* the rules that match an array in a context, in the order of the list
Matching(rules, array, context) ==
    SelectSeq(rules, LAMBDA r : /\ array.nbytes >= r.minsize
                                /\ array.dtype \in r.types
                                /\ context \in r.contexts)

(* C13: serialize then deserialize, with the default compression and the
   default whitelist, gives back the object tree: serialize succeeds on arrays
   and on nodes built from them, and deserialize of what it stored returns a
   value equal to the object. *)
C13_RoundTrip ==
    /\ (op = "serialize" /\ where.compression = DefaultCompression) => res.err = ""
    /\ (op = "deserialize" /\ root.cls = "stored" /\ where.prefix = root.prefix
          /\ where.whitelist = DefaultWhitelist)
         => res = ValueRes(root.graph)

(* C14: deserialize resolves a gen only when the whitelist matches its dotted
   path: on a fill tree with a gen outside the whitelist (any gen, when the
   whitelist is empty) it fails with the forbidden-constructor error and
   returns nothing. *)
C14_WhitelistEnforced ==
    (/\ op = "deserialize"
     /\ HasDocument(old, where.prefix)
     /\ \E gen \in Gens(DocumentAt(old, where.prefix).schema) : ~Matched(gen, where.whitelist))
      => (res.err = "ForbiddenConstructor" /\ res.kind = "none")

(* C15: back-references resolve: serialize handles objects that are shared or
   contain themselves, and deserialize of such a tree never fails on a ref
   and returns the object, with the same value at both positions. *)
C15_BackReferencesResolve ==
    /\ (op = "serialize" /\ HasBackReference(what.graph)) => res.err = ""
    /\ (op = "deserialize" /\ root.cls = "stored" /\ where.prefix = root.prefix
          /\ HasBackReference(root.graph) /\ where.whitelist = DefaultWhitelist)
         => (res.err # "KeyError" /\ res = ValueRes(root.graph))

(* C16: after serialize returns, sink[prefix] holds the schema document with
   the version, the prefix and the fill tree, and every blob the call wrote
   is under prefix + str(id) for the id of the fill-tree node that reads it. *)
C16_DocumentAndBlobKeys ==
    op = "serialize" =>
      /\ res.err = ""
      /\ HasDocument(heap, where.prefix)
      /\ DocumentAt(heap, where.prefix).awkward = Version
      /\ DocumentAt(heap, where.prefix).prefix = where.prefix
      /\ \A key \in DOMAIN heap :
           (key # Key(where.prefix, "") /\ (key \notin DOMAIN old \/ heap[key] # old[key]))
             => \E t \in Nodes(DocumentAt(heap, where.prefix).schema) :
                  /\ t.t = "gen" /\ t.id # None
                  /\ key = Key(where.prefix, Str(t.id[1]))
                  /\ \E r \in Nodes(t) : r.t = "read" /\ r.key = Str(t.id[1])

(* C17: an array is compressed exactly when a rule of the list matches it
   (size, dtype, context); the first matching rule gives the decompress
   reference, which is the gen inside the frombuffer call; an array no rule
   matches is written as its raw bytes. *)
C17_CompressionRules ==
    op = "serialize" =>
      /\ res.err = ""
      /\ HasDocument(heap, where.prefix)
      /\ \A oid \in 0..(Len(what.graph) - 1) :
           what.graph[oid + 1].k = "ndarray" =>
             \E t \in Nodes(DocumentAt(heap, where.prefix).schema) :
               /\ t.t = "gen" /\ t.id = Some(oid) /\ t.gen = <<"numpy", "frombuffer">>
               /\ IF Matching(where.compression, what.graph[oid + 1],
                              ContextOf(what.graph, oid)) # <<>>
                  THEN t.args[1] = Gen(None, Matching(where.compression, what.graph[oid + 1],
                                                      ContextOf(what.graph, oid))[1].decompress,
                                       <<Read(Str(oid))>>)
                  ELSE /\ t.args[1] = Read(Str(oid))
                       /\ heap[Key(where.prefix, Str(oid))] = Blob(what.graph[oid + 1].data)

\* the element of the converted array that element i of the node ends up as
\* is masked by a node of the tree
RECURSIVE MaskedAbove(_, _)
MaskedAbove(data, i) ==
    CASE data.cls = "ndarray" -> FALSE
      [] data.cls = "ObjectArray" -> MaskedAbove(data.content, i)
      [] data.cls = "IndexedMaskedArray" ->
            \/ data.mask[i] < 0
            \/ MaskedAbove(data.content, data.mask[i] + 1)
      [] OTHER -> BoolMask(data)[i] \/ MaskedAbove(data.content, i)

\* element i of a converted array is null
IsNull(r, i) == r.node.mask # None /\ r.node.mask[1][i]

(* C18: toarrow collapses the masks of nested masked nodes into one null
   mask: element i of the converted array is null exactly when at least one
   enclosing masked node (boolean mask, bit mask or indexed mask) masks it. *)
C18_NullMaskIsUnion ==
    (op = "toarrow" /\ res.err = "") =>
        \A i \in 1..Len(res.arr) : IsNull(res, i) <=> MaskedAbove(what.obj, i)

\* the type the schema describes: an option around what is marked nullable
RECURSIVE TypeOf(_)
Marked(field) == Lifted(TypeOf(field.type), field.nullable)
TypeOf(tpe) ==
    CASE tpe.tpe = "DictionaryType" -> TypeOf(tpe.children[1].type)
      [] tpe.tpe = "ListType" -> ArrayType("inf", TypeOf(tpe.children[1].type))
      [] tpe.tpe = "UnionType" ->
            Sum([i \in 1..Len(tpe.children) |-> TypeOf(tpe.children[i].type)])
      [] tpe.tpe = "StructType" ->
            Product([i \in 1..Len(tpe.children) |->
                       ArrayType(tpe.children[i].name, Marked(tpe.children[i]))])
      [] OTHER -> PrimitiveOf(tpe.name)

(* C19: schema2type lifts nullability into option(T) exactly where the
   schema marks it: every nullable field or struct child contributes one
   option wrapper and a non-nullable one none; a nullable list, union or
   dictionary field puts no option on its element, alternative or value
   types, and no option(option(T)) arises. *)
C19_OptionWhereMarked ==
    (op = "schema2type" /\ res.err = "") =>
        res.node = Product([i \in 1..Len(what.schema) |->
                              ArrayType(what.schema[i].name, Marked(what.schema[i]))])

\* the errors of the validation of starts and stops
StructuralErrors == {"StartsShape", "StartsDtype", "StopsShape", "StopsDtype", "StartsStops"}

\* an operation on rows: indexing or assignment by anything but a field name
RowOperation == op' \in {"getitem", "setitem"} /\ where'.k # "str"

\* what is wrong with the index arrays of a node, as the statement has it
Malformed(n) ==
    (IF n.ndim[1] # 1 THEN {"StartsShape"} ELSE {})
    \cup (IF ~Integer(n.dtype[1]) THEN {"StartsDtype"} ELSE {})
    \cup (IF n.ndim[2] # 1 THEN {"StopsShape"} ELSE {})
    \cup (IF ~Integer(n.dtype[2]) THEN {"StopsDtype"} ELSE {})
    \cup (IF Len(n.starts) > Len(n.stops) THEN {"StartsStops"} ELSE {})

(* C20: every indexing of rows and every assignment to rows validates starts
   and stops before it touches the content: when starts or stops is not
   one-dimensional or not of an integer type, or starts is longer than
   stops, the operation fails with the error of that condition and the
   content is neither read nor written; starts no longer than stops is
   accepted. *)
C20_EveryOperationValidates ==
    [][RowOperation =>
         /\ Malformed(cur) # {} =>
               (res'.err \in Malformed(cur) /\ res'.kind = "none" /\ heap' = heap)
         /\ Malformed(cur) = {} => res'.err \notin StructuralErrors]_vars

\* what _check_startsstops finds first: starts before stops, the shape before
\* the type, an empty array being of any type
FirstFault(n) ==
    IF n.ndim[1] # 1 THEN "StartsShape"
    ELSE IF Len(n.starts) > 0 /\ ~Integer(n.dtype[1]) THEN "StartsDtype"
    ELSE IF n.ndim[2] # 1 THEN "StopsShape"
    ELSE IF Len(n.stops) > 0 /\ ~Integer(n.dtype[2]) THEN "StopsDtype"
    ELSE IF Len(n.starts) > Len(n.stops) THEN "StartsStops"
    ELSE ""

(* C20, amended: every indexing of rows, and every assignment to rows of a
   writeable node, validates starts and stops before it touches the content:
   when starts, or else stops, is not one-dimensional, or is not empty and not
   of an integer type, or starts is longer than stops, the operation fails
   with the error of the first of these conditions and the content is neither
   read nor written; otherwise, an empty starts or stops of any type
   included, the validation raises nothing. *)
C20_ValidatedBeforeContent ==
    [][(RowOperation /\ (op' = "setitem" => cur.writeable)) =>
         /\ FirstFault(cur) # "" =>
               (res'.err = FirstFault(cur) /\ res'.kind = "none" /\ heap' = heap)
         /\ FirstFault(cur) = "" => res'.err \notin StructuralErrors]_vars

C20_Witness ==
    /\ op = "setitem" /\ where.k = "slice" /\ cur.writeable
    /\ cur.ndim = <<1, 2>> /\ cur.dtype[1] = "int64" /\ Len(cur.starts) > 0
    /\ res.err = "StopsShape"
    /\ heap = old

\* a byte-jagged node whose byte ranges are ranges of its content
ByteNode(n, hp) == n.cls = "ByteJaggedArray" /\ Valid(n, hp)

\* the row an integer selects
RowAt(n, w) == Wrap(w.i, Len(n.starts)) + 1

C21_Case ==
    /\ op = "getitem" /\ where.k = "int" /\ ByteNode(cur, heap)
    /\ -Len(cur.starts) <= where.i /\ where.i < Len(cur.starts)
    /\ (cur.stops[RowAt(cur, where)] - cur.starts[RowAt(cur, where)]) % cur.itemsize = 0

(* C21: on a byte-jagged node with elements of w bytes, N[i] for an integer i
   whose row [s, e) has a length divisible by w is a typed view of exactly the
   bytes content[s:e]: it has (e - s) / w elements, and their bytes are those
   bytes, whether or not s is a multiple of w. *)
C21_RowIsTypedView ==
    C21_Case =>
        /\ res.err = "" /\ res.kind = "array"
        /\ Len(res.arr) * cur.itemsize
             = cur.stops[RowAt(cur, where)] - cur.starts[RowAt(cur, where)]
        /\ \A p \in 0..(Len(res.arr) * cur.itemsize - 1) :
              EncodeByte(res.arr[(p \div cur.itemsize) + 1], p % cur.itemsize)
                = heap[cur.content.col][cur.starts[RowAt(cur, where)] + p + 1]

C21_Witness ==
    /\ C21_Case
    /\ cur.starts[RowAt(cur, where)] % cur.itemsize # 0
    /\ Len(res.arr) = 2

C22_Case ==
    /\ op = "setitem" /\ where.k = "int" /\ cur.writeable /\ ByteNode(cur, old)
    /\ -Len(cur.starts) <= where.i /\ where.i < Len(cur.starts)

\* byte p (from 0) of the content lies in the row the integer selects
InRow(n, w, p) == n.starts[RowAt(n, w)] <= p /\ p < n.stops[RowAt(n, w)]

(* C22: an element assignment to row i of a writeable byte-jagged node, whose
   byte range is [s, e) with 0 <= s <= e <= len(content), aligned or not,
   writes exactly the bytes content[s:e]: no byte below s or at or above e
   is modified, and after an assignment of one value every element of the row
   holds that value. *)
C22_WritesExactlyTheRow ==
    C22_Case =>
        /\ \A p \in 0..(Len(heap[cur.content.col]) - 1) :
              ~InRow(cur, where, p) => heap[cur.content.col][p + 1] = old[cur.content.col][p + 1]
        /\ (res.err = "" /\ what.k = "scalar") =>
              \A p \in 0..(Len(heap[cur.content.col]) - 1) :
                 InRow(cur, where, p) =>
                    heap[cur.content.col][p + 1]
                      = EncodeByte(what.v, (p - cur.starts[RowAt(cur, where)]) % cur.itemsize)

-----------------------------------------------------------------------------
(* Reconstruction from the external format *)

\* the buffers of the array follow the layout of its type
FollowsLayout(obj) ==
    /\ obj.cls = "pyarrow.Array"
    /\ Known(obj.type)
    /\ \E nulls \in SUBSET Places(obj.type, <<>>) : obj.buffers = Layout(obj.type, <<>>, nulls)

\* the node holds, for the type at the place at, the buffers of this place,
\* each in its part, and so do the nodes of the children
RECURSIVE Placed(_, _, _), PlacedUnmasked(_, _, _)
Placed(node, tpe, at) ==
    IF node.cls = "BitMaskedArray"
    THEN node.mask = Buf("mask", at)[1] /\ PlacedUnmasked(node.content, tpe, at)
    ELSE PlacedUnmasked(node, tpe, at)
PlacedUnmasked(node, tpe, at) ==
    CASE tpe.tpe = "DictionaryType" ->
            /\ node.cls = "IndexedArray"
            /\ node.contents[1] = Awk("ndarray", <<Buf("data", at)[1]>>, <<>>)
            /\ node.contents[2].cls = "[:]"
            /\ Placed(node.contents[2].contents[1], tpe.children[1].type, <<0>>)
      [] HasChildren(tpe) ->
            /\ node.cls = (CASE tpe.tpe = "StructType" -> "Table"
                             [] tpe.tpe = "ListType" -> "JaggedArray"
                             [] OTHER -> "UnionArray")
            /\ node.own = (CASE tpe.tpe = "StructType" -> <<>>
                             [] tpe.tpe = "ListType" -> <<Buf("offsets", at)[1]>>
                             [] tpe.name = "sparse" -> <<Buf("tags", at)[1]>>
                             [] OTHER -> <<Buf("index", at)[1], Buf("tags", at)[1]>>)
            /\ Len(node.contents) = Len(tpe.children)
            /\ \A i \in DOMAIN tpe.children :
                   Placed(node.contents[i], tpe.children[i].type, Append(at, i))
      [] tpe.name \in {"string", "binary"} ->
            node = Awk("StringArray", <<Buf("data", at)[1], Buf("offsets", at)[1]>>, <<>>)
      [] OTHER -> node.own = <<Buf("data", at)[1]>> /\ node.contents = <<>>

C23_Case == op = "fromarrow" /\ FollowsLayout(what.obj)

(* C23: fromarrow of an array whose buffers follow the layout of its type
   consumes the buffer list from the back and completely: the buffers of the
   children (last child first), then those of the type itself, then the
   validity mask, each ending in its part of the node of its place; no buffer
   is left, so that the assertion len(buffers) == 0 does not fail. *)
C23_BuffersConsumed ==
    C23_Case =>
        /\ res.err = ""
        /\ res.arr = <<>>
        /\ res.node.cls = "[:]"
        /\ Placed(res.node.contents[1], what.obj.type, <<>>)

\* a dense union under a mask, over a masked child, is reconstructed
C23_Witness ==
    /\ C23_Case
    /\ what.obj.type.tpe = "UnionType"
    /\ what.obj.type.name = "dense"
    /\ what.obj.buffers[1] # None
    /\ what.obj.buffers[Len(what.obj.buffers) - 1] # None
    /\ res.err = ""
    /\ res.node.contents[1].cls = "BitMaskedArray"

\* two elements of the union have one tag and one index
Repeats(data) ==
    \E k, l \in DOMAIN data.tags :
        k # l /\ data.tags[k] = data.tags[l] /\ data.index[k] = data.index[l]

C24_Case ==
    /\ op = "toarrow"
    /\ what.obj.cls = "MaskedArray"
    /\ what.obj.content.cls = "UnionArray"
    /\ Repeats(what.obj.content)

(* C24: toarrow of a union under a null mask fails as an unsupported
   conversion whenever two elements of the union with one tag carry the same
   index; it does not return an array whose null mask for the alternative
   holds the value of whichever of the two elements was assigned last. *)
C24_RepeatsRefused ==
    C24_Case => res.err \in {"NotImplementedError", "TypeError"}

\* the chunks of a chunked array, the batches of a table, and those not empty
InputChunks(obj) == IF obj.cls = "pyarrow.ChunkedArray" THEN obj.chunks ELSE obj.batches
Kept(obj) == NonEmpty(InputChunks(obj))

C30_Case ==
    /\ op = "fromarrow"
    /\ what.obj.cls \in {"pyarrow.ChunkedArray", "pyarrow.Table"}
    /\ \A i \in DOMAIN InputChunks(what.obj) : FromArrow(InputChunks(what.obj)[i]).err = ""

(* C30: fromarrow of a chunked array or of a table returns a converted node
   whose length is the sum of the lengths of the chunks: the empty chunks are
   dropped, one chunk that is not empty gives the converted node of this
   chunk, and any other number gives a chunked node over the converted chunks
   kept, in their order, with counts[i] = len(chunks[i]). *)
C30_ChunksConverted ==
    C30_Case =>
        /\ res.err = ""
        /\ res.node.cls \in {"[:]", "Table", "ChunkedArray"}
        /\ AwkLen(res.node) = SumSeq([i \in DOMAIN InputChunks(what.obj) |->
                                        AwkLen(InputChunks(what.obj)[i])])
        /\ Len(Kept(what.obj)) = 1 => res.node = FromArrow(Kept(what.obj)[1]).node
        /\ Len(Kept(what.obj)) # 1 =>
               res.node = ChunkedArray([i \in DOMAIN Kept(what.obj) |->
                                           FromArrow(Kept(what.obj)[i]).node],
                                       [i \in DOMAIN Kept(what.obj) |->
                                           AwkLen(Kept(what.obj)[i])])

-----------------------------------------------------------------------------
C25_Case ==
    /\ op = "getitem"
    /\ cur.cls = "JaggedArray"
    /\ SelectsRows(cur, where)
    /\ Valid(cur, heap)

(* C25: selection of rows keeps the structural invariant: when N has as many
   starts as stops and 0 <= starts[i] <= stops[i] <= len(content) for every
   row, N[s] for a slice, an integer array or a boolean array s that numpy
   accepts is a node with as many starts as stops and the same bounds, and so
   is every node reached from such an N by a chain of these selections. *)
C25_SelectionKeepsInvariant ==
    /\ C25_Case => res.err = "" /\ res.kind = "node" /\ Valid(res.node, heap)
    /\ (root.cls = "JaggedArray" /\ Valid(root, heap)) => Valid(cur, heap)

\* a selection from a view that is itself a selection, of rows out of their order
C25_Witness ==
    /\ C25_Case
    /\ depth = MaxChain
    /\ cur # root
    /\ where.k = "array" /\ Len(where.arr) = 2
    /\ res.kind = "node"
    /\ res.node.starts # cur.starts
    /\ \E i \in DOMAIN res.node.starts : res.node.starts[i] < res.node.stops[i]

\* the node cut to the stops of its len(N) rows
Truncated(n) == [n EXCEPT !.stops = SubSeq(n.stops, 1, Len(n.starts))]

C26_Case ==
    /\ op = "getitem"
    /\ cur.cls = "JaggedArray"
    /\ CheckStartsStops(cur) = ""
    /\ Len(cur.stops) > Len(cur.starts)
    /\ \/ where.k = "int" /\ -Len(cur.starts) <= where.i /\ where.i < Len(cur.starts)
       \/ where.k = "slice"

(* C26: selection of rows pairs starts[j] with stops[j] of the same row j:
   on a node with more stops than starts, an integer index i with
   -len(N) <= i < len(N) and a slice (with negative bounds or a negative step
   too) select the rows they select on the node cut to its first len(N)
   stops. *)
C26_SameRowsAsTruncated ==
    C26_Case =>
        IF where.k = "int"
        THEN res = JaggedGetItem(Truncated(cur), heap, where)
        ELSE /\ res.err = "" /\ res.kind = "node"
             /\ res.node.starts = JaggedGetItem(Truncated(cur), heap, where).node.starts
             /\ SubSeq(res.node.stops, 1, Len(res.node.starts))
                  = JaggedGetItem(Truncated(cur), heap, where).node.stops

-----------------------------------------------------------------------------
\* cell p (from 1) of the content lies in a row of n that w selects
InSelected(n, w, p) ==
    \E k \in DOMAIN Selected(n, w) :
        n.starts[Selected(n, w)[k] + 1] < p /\ p <= n.stops[Selected(n, w)[k] + 1]

\* V[t] = x succeeds on a view V of a writeable node N over an array
C27_Case ==
    /\ op' = "setitem"
    /\ res'.err = ""
    /\ depth >= 1
    /\ root.cls = "JaggedArray" /\ Plain(root) /\ root.writeable
    /\ Valid(root, heap)

(* C27: an assignment through a view writes through to the content of the
   parent and touches nothing else: when V = N[s] is a view of a writeable
   node N and V[t] = x succeeds, the content N sees changes at exactly the
   cells inside the rows of V that t selects, every other cell keeps its
   value, and the starts and stops of N and of V are as before. *)
C27_WritesThroughView ==
    [][C27_Case =>
          /\ \A p \in DOMAIN heap[root.content.col] :
                 heap'[root.content.col][p] # heap[root.content.col][p]
                     <=> InSelected(cur, where', p)
          /\ cur'.content = root.content
          /\ cur'.starts = cur.starts /\ cur'.stops = cur.stops
          /\ root'.starts = root.starts /\ root'.stops = root.stops]_vars

\* a jagged value was assigned to two rows of a view that are not in the
\* order of the parent, and cells of the parent changed
C27_Witness ==
    /\ op = "setitem" /\ res.err = ""
    /\ depth >= 1
    /\ root.cls = "JaggedArray" /\ Plain(root) /\ root.writeable
    /\ cur.starts # root.starts
    /\ what.k = "jagged"
    /\ heap # old
    /\ \E p \in DOMAIN heap[root.content.col] : heap[root.content.col][p] = old[root.content.col][p]

(* C28: read-only is inherited by the views: every node reached from a
   JaggedArray or a ByteJaggedArray built with writeable=False by a chain of
   selections of rows and of fields is read-only, and no indexing and no
   assignment that starts from such a node changes its content. *)
C28_ReadOnlyInherited ==
    ~root.writeable =>
        /\ ~cur.writeable
        /\ res.kind = "node" => ~res.node.writeable
        /\ heap = old

(* C29: two serializations into one sink under distinct prefixes do not touch
   each other's keys: a call of serialize under a prefix writes its document
   and its blobs, every key it writes or changes is a key of its own prefix,
   and it removes nothing, so what was stored under another prefix is still
   there to be read. *)
C29_PrefixesDoNotInterfere ==
    op = "serialize" =>
      /\ res.err = ""
      /\ HasDocument(heap, where.prefix)
      /\ \A key \in DOMAIN old : key \in DOMAIN heap
      /\ \A key \in DOMAIN heap :
           (key \notin DOMAIN old \/ heap[key] # old[key]) => key[1] = where.prefix

=============================================================================
